---- MODULE Spec2Model ----
(***************************************************************************)
(* Payment-safe generation transaction of the Telegram storefront bot.     *)
(*                                                                         *)
(* generate_with_payment (app/payments/integration.py) is an asyncio       *)
(* coroutine; several calls of it run interleaved on one event loop, and   *)
(* each `await` is a point where another call may run.  Every action below *)
(* is one awaited operation of one call together with the synchronous code *)
(* that follows it up to the next await.                                   *)
(*                                                                         *)
(* The charge ledger (app.payments.charges.ChargeManager), the user        *)
(* metadata service, the generation invoker (app.kie.generator) and        *)
(* is_free_model are collaborators whose code is not part of the analysed  *)
(* sources; they are modelled from their contracts in the specification    *)
(* (sections 4.2, 4.3 and 6).                                              *)
(***************************************************************************)
EXTENDS Integers, Sequences, FiniteSets, Bags, TLC

(***************************************************************************)
(* Bounds of the model.                                                    *)
(***************************************************************************)
\* number of coroutines of generate_with_payment that may be in flight at once
NumSlots == 2
\* total number of calls of generate_with_payment in one behaviour
MaxCalls == 2
\* balance of the user before the first call
InitBalance == 100
\* referral_free_uses of the user before the first call
MaxFreeUses == 1

\* REFERRAL_MAX_RUB of app.utils.config: cap of a referral-free generation
ReferralMaxRub == 50

Slots == 1..NumSlots
\* amounts a caller may pass: one within the referral cap, one above it
Amounts == {30, 80}
\* task_id=None
None == 0
\* the task id a caller passes when it retries a request; calls that pass none
\* get ids of their own, below
RetryTaskId == {1}
TaskIdInputs == {None} \cup RetryTaskId
\* the caller-supplied id, then one uuid-derived id per call
TxIds == RetryTaskId \cup {Cardinality(RetryTaskId) + n : n \in 1..MaxCalls}

Models == {"free_model", "paid_model"}
FreeModels == {"free_model"}

\* the deployment has a database: charge_manager.db_service is not None
db_service == TRUE

\* outcomes of one KieGenerator.generate call: a success result, a failure
\* result, a timeout result, or an exception
GenOutcomes == {"success", "failed", "timeout", "raise"}

VARIABLES
    balance,             \* users.balance of the user
    referral_free_uses,  \* users.referral_free_uses of the user
    charges,             \* pending_charges: tx id -> charge row
    req,                 \* slot -> state of the coroutine running in it
    calls,               \* number of calls started so far
    hist                 \* tx id -> what has happened for that id so far

\* the variables of the payment flow
paymentVars == <<balance, referral_free_uses, charges, req, calls, hist>>

(***************************************************************************)
(* State of the idempotency store (app/utils/idempotency.py): a dictionary *)
(* in process memory guarded by a threading.Lock, used from several       *)
(* threads; time.time() is a clock that only moves forward.                *)
(***************************************************************************)
\* number of threads that call the idempotency store
NumThreads == 2
\* the clock runs from 0 to MaxTime ticks
MaxTime == 3
\* the ttl_s most callers pass (the default of idem_try_start), in ticks
TtlS == 2

Keys == {"k1", "k2"}
\* the ttl_s arguments: the default, and a shorter one
TtlInputs == {TtlS - 1, TtlS}
\* the arguments of one idem_try_start call
TryStartArgs == [key : Keys, ttl_s : TtlInputs]

\* key not in _STORE
NoEntry == [created_at |-> -1, status |-> "absent", value |-> None]
\* @dataclass IdemEntry(created_at, status, value=None)
IdemEntry(created_at, status, value) ==
    [created_at |-> created_at, status |-> status, value |-> value]
\* the (status, value) pairs a caller passes to idem_finish: done with a
\* result payload, failed without one
FinishInputs == {[status |-> "done", value |-> 1], [status |-> "failed", value |-> None]}

\* no call of the store has returned since the clock last moved
NoObs == [op |-> "none", key |-> "none", ttl_s |-> 0,
          started |-> FALSE, existing |-> NoEntry]

VARIABLES
    STORE,     \* _STORE: key -> IdemEntry, NoEntry for a key that is absent
    clock,     \* time.time(), in ticks
    waiting,   \* arguments -> number of threads inside idem_try_start with
               \* them that have read the clock and wait for _LOCK
    obs,       \* the call that returned last in this tick, and what it returned
    ttls,      \* the ttl_s values passed to idem_try_start so far
    starts     \* key -> created_at of the latest entry a call started, -1 if none

idemVars == <<STORE, clock, waiting, obs, ttls, starts>>

IdemInit ==
    /\ STORE = [k \in Keys |-> NoEntry]
    /\ clock = 0
    /\ waiting = [a \in TryStartArgs |-> 0]
    /\ obs = NoObs
    /\ ttls = {}
    /\ starts = [k \in Keys |-> -1]

(***************************************************************************)
(* State of the update dedupe: the processed_updates table                 *)
(* (app/database/processed_updates.py) and the coroutines of               *)
(* UpdateDedupeMiddleware.__call__ (bot/middleware/update_dedupe.py), one  *)
(* per delivery of an update, on one instance or on several.               *)
(***************************************************************************)
\* number of deliveries of updates in one behaviour
NumDeliveries == 2

Deliveries == 1..NumDeliveries
\* Telegram update ids; Telegram may deliver one id several times
UpdateIds == {"u1", "u2"}
\* an update object without update_id
NoUpdateId == "none"

\* storage_error: the INSERT or the SELECT of this delivery raised
IdleDelivery ==
    [pc |-> "idle", update_id |-> NoUpdateId, is_first_time |-> FALSE,
     storage_error |-> FALSE]

VARIABLES
    processed_updates,   \* the update_id column of table processed_updates
    mw,                  \* delivery -> state of the middleware coroutine
    handled,             \* update id -> number of times next_handler ran for it
    firsts               \* update id -> number of mark_update_processed calls
                         \* for it that returned True

dedupeVars == <<processed_updates, mw, handled, firsts>>

DedupeInit ==
    /\ processed_updates = {}
    /\ mw = [d \in Deliveries |-> IdleDelivery]
    /\ handled = [u \in UpdateIds |-> 0]
    /\ firsts = [u \in UpdateIds |-> 0]

(***************************************************************************)
(* State of the singleton instance lock: the instance_lease row that       *)
(* app.locking.single_instance.SingletonLock keeps in the database, and    *)
(* the process instances running main() of main_render.py.  SingletonLock  *)
(* is not part of the analysed sources; it is modelled from its contract   *)
(* in the specification (sections 3 and 4.5).                               *)
(***************************************************************************)
\* number of process instances of the deployment
NumInstances == 2
\* max_retries of main(): acquisition attempts before standby (8 in the
\* source; the attempts differ only in their number)
MaxRetries == 2
\* lease duration in ticks of the database clock
LeaseTtl == 2

Instances == 1..NumInstances
\* no holder: the lease row is unclaimed
NoInstance == 0
\* the expiry is kept as the time left until it: remaining = expires_at - NOW()
UnclaimedLease == [holder |-> NoInstance, remaining |-> 0]

\* the environment of an instance: DATABASE_URL set, DRY_RUN; a dry run
\* without DATABASE_URL takes the same path as the other two lock-free ones
EnvInputs ==
    {e \in [database_url : BOOLEAN, dry_run : BOOLEAN] :
        e.database_url \/ ~e.dry_run}
\* the values of BOT_MODE: polling, or any other
BotModes == {"polling", "webhook"}

\* an instance before main() runs
BootInstance ==
    [pc |-> "boot", database_url |-> FALSE, dry_run |-> FALSE,
     attempt |-> 0, lock_acquired |-> FALSE,
     acquired |-> FALSE, lease_left |-> 0, acquired_free |-> FALSE,
     shutdown |-> FALSE, emergency |-> "none",
     db_services |-> FALSE, polling |-> FALSE, pending_charge |-> FALSE,
     mode |-> "none", ready |-> FALSE, exit_code |-> 0]

\* an instance whose process has ended with the exit code (its locals are gone)
Exited(exit_code) == [BootInstance EXCEPT !.pc = "exited", !.exit_code = exit_code]

\* main() returned
ExitedInstance == Exited(0)

\* what validate_startup() does: return, raise StartupValidationError, or
\* raise another exception (the RuntimeError of the allowlist check)
ValidationOutcomes == {"ok", "StartupValidationError", "RuntimeError"}

VARIABLES
    lease,       \* the instance_lease row: holder and time left to expiry
    inst         \* instance -> state of its main() and of its SingletonLock

leaseVars == <<lease, inst>>

LeaseInit ==
    /\ lease = UnclaimedLease
    /\ inst = [i \in Instances |-> BootInstance]

(***************************************************************************)
(* State of the pricing computations: the last effective price computed    *)
(* for a pricing record by app/pricing/calc.py and app/pricing/             *)
(* free_models.py, and the last FREE tier computed from a catalog.  Amounts *)
(* are whole numbers of the smallest money unit; the rounding of floats is  *)
(* not modelled.                                                            *)
(***************************************************************************)
\* a configured rate of a pricing record is 0..MaxRate
MaxRate == 2
\* the FX rate, the markup and the credit rate are 1..MaxFactor
MaxFactor == 2
\* a catalog lists at most MaxModels models
MaxModels == 3
\* the limit argument of get_free_models is 0..MaxLimit
MaxLimit == 2

\* the key is not in the pricing dict (dict.get returns None)
Absent == -1
PricingKeys == {"rub_per_gen", "rub_per_use", "usd_per_gen", "usd_per_use",
                "credits_per_gen", "credits_per_use"}
Rates == {Absent} \cup (0..MaxRate)
\* the pricing dicts of a model: each key absent, zero or positive
Pricings == [PricingKeys -> Rates]
Factors == 1..MaxFactor
\* the pricing dict without keys
EmptyPricing == [k \in PricingKeys |-> Absent]

\* no effective price has been computed yet
NoQuote ==
    [pricing |-> EmptyPricing, fx |-> 0, markup |-> 0, credits_to_usd |-> 0,
     price |-> [rub |-> 0, basis |-> "unset"], free_rub |-> Absent]

\* the model ids are catalog keys; their number order stands for the
\* lexicographic order of the keys
ModelIds == 1..MaxModels
\* what a catalog holds for a model: disabled, without price, a RUB rate, or
\* a USD rate
CatalogModels ==
    {[enabled |-> FALSE, pricing |-> [EmptyPricing EXCEPT !["rub_per_gen"] = 1]],
     [enabled |-> TRUE, pricing |-> EmptyPricing],
     [enabled |-> TRUE, pricing |-> [EmptyPricing EXCEPT !["usd_per_gen"] = 1]]}
    \cup {[enabled |-> TRUE, pricing |-> [EmptyPricing EXCEPT !["rub_per_gen"] = r]] :
              r \in 1..MaxRate}
\* the markup of the FREE tier computation: the default of PRICING_MARKUP
DefaultMarkup == 2
\* the catalogs: the items of the "models" object in the order of the file,
\* each key once
Catalogs ==
    UNION {{c \in [1..n -> [model_id : ModelIds, model : CatalogModels]] :
               \A k, l \in 1..n : c[k].model_id = c[l].model_id => k = l} :
           n \in 0..MaxModels}
\* no FREE tier has been computed yet
NoTier ==
    [called |-> FALSE, readable |-> FALSE, catalog |-> << >>, fx |-> 0,
     limit |-> 0, raised |-> FALSE, free_ids |-> << >>]

VARIABLES
    quote,   \* the last pricing record priced, and both effective prices of it
    tier     \* the last catalog read, and the FREE tier computed from it

pricingVars == <<quote, tier>>

PricingInit ==
    /\ quote = NoQuote
    /\ tier = NoTier

(***************************************************************************)
(* State of the input wizard of bot/flows/wizard.py for one chat: the FSM  *)
(* state and the FSM data kept by the dispatcher's storage, and the        *)
(* handlers that have been dispatched and are suspended at an await of a   *)
(* Telegram call.  The dispatcher is created as Dispatcher() (main_render  *)
(* line 127): updates are handled as concurrent tasks, the state filter of *)
(* a handler is evaluated when the update is dispatched, and the storage   *)
(* calls of a handler do not suspend it.                                   *)
(***************************************************************************)
\* a model's input spec lists at most MaxFields fields
MaxFields == 2
\* handlers of the chat that may be suspended at the same time
NumHandlers == 2
\* the calls of generate_with_payment that are counted
MaxGenCalls == 2

\* the fields of an input spec, by what the handlers look at: required,
\* default is not None, and a file type (IMAGE_FILE, VIDEO_FILE, AUDIO_FILE)
FieldKinds ==
    {[required |-> TRUE,  has_default |-> FALSE, file |-> FALSE],
     [required |-> FALSE, has_default |-> TRUE,  file |-> FALSE],
     [required |-> FALSE, has_default |-> FALSE, file |-> FALSE],
     [required |-> TRUE,  has_default |-> FALSE, file |-> TRUE]}
\* spec.fields of the model the wizard is started for (not empty: a model
\* without inputs is generated without the wizard)
InputSpecs == UNION {[1..n -> FieldKinds] : n \in 1..MaxFields}

\* the FSM data after state.clear(): no key is set; get() of the index
\* defaults to 0 and of the inputs to {}
NoData == [wizard_spec |-> FALSE, model_config |-> FALSE,
           wizard_current_field_index |-> 0, wizard_inputs |-> {}]

\* the callbacks with a state filter, and the state the filter asks for
CallbackFilter ==
    [skip |-> "collecting_input", use_default |-> "collecting_input",
     back |-> "collecting_input", edit |-> "confirming",
     confirm |-> "confirming"]
Callbacks == DOMAIN CallbackFilter

\* a dispatched callback handler suspended at `await callback.answer()`
Answering(kind) ==
    [kind |-> kind, index |-> 0, inputs |-> {}, model_config |-> FALSE]
\* wizard_process_input suspended at the `await message.answer` that
\* acknowledges a file, with its locals current_index and inputs
Acknowledging(index, inputs) ==
    [kind |-> "file_ack", index |-> index, inputs |-> inputs,
     model_config |-> FALSE]
\* wizard_confirm_and_generate suspended at `await callback.message.edit_text`,
\* with what it read of model_config
Launching(model_config) ==
    [kind |-> "launching", index |-> 0, inputs |-> {},
     model_config |-> model_config]

VARIABLES
    fields,         \* spec.fields of the wizard started, <<>> before the start
    fsm_state,      \* the FSM state: "none", "collecting_input", "confirming"
    fsm_data,       \* the FSM data
    handlers,       \* the bag of suspended handlers
    gen_calls       \* times the call of generate_with_payment was reached

wizardVars == <<fields, fsm_state, fsm_data, handlers, gen_calls>>

WizardInit ==
    /\ fields = <<>>
    /\ fsm_state = "none"
    /\ fsm_data = NoData
    /\ handlers = EmptyBag
    /\ gen_calls = 0

\* the variables of the other subsystems, which the payment flow never touches
nonPaymentVars == <<idemVars, dedupeVars, leaseVars, pricingVars, wizardVars>>

NonPaymentInit ==
    IdemInit /\ DedupeInit /\ LeaseInit /\ PricingInit /\ WizardInit

vars == <<paymentVars, nonPaymentVars>>


(***************************************************************************)
(* Charge ledger: ChargeManager, the contract of section 4.2.              *)
(***************************************************************************)
NoCharge == [status |-> "none", amount |-> 0]

ChargeStatus == {"pending", "committed", "released"}

RECURSIVE SumPending(_, _)
SumPending(ch, ids) ==
    IF ids = {} THEN 0
    ELSE LET t == CHOOSE x \in ids : TRUE
         IN  (IF ch[t].status = "pending" THEN ch[t].amount ELSE 0)
             + SumPending(ch, ids \ {t})

\* available balance = stored balance - sum of the pending charges' amounts
Available == balance - SumPending(charges, TxIds)

\* reserve: an existing id reports its current status and inserts nothing;
\* with reserve_balance the balance check is atomic with the insertion
create_pending_charge(tx, amount, reserve_balance) ==
    IF charges[tx].status # "none"
    THEN [status |-> IF charges[tx].status = "pending" THEN "already_pending"
                     ELSE IF charges[tx].status = "committed" THEN "already_committed"
                     ELSE "already_released",
          charges |-> charges]
    ELSE IF reserve_balance /\ Available < amount
    THEN [status |-> "insufficient_balance", charges |-> charges]
    ELSE [status |-> "pending",
          charges |-> [charges EXCEPT ![tx] =
                          [status |-> "pending", amount |-> amount]]]

\* commit as a read followed by an unconditional write: debits whenever the
\* row exists
commit_charge_NoCompareAndSet(tx) ==
    IF charges[tx].status = "none"
    THEN [status |-> "not_found", charges |-> charges, balance |-> balance]
    ELSE [status |-> "committed",
          charges |-> [charges EXCEPT ![tx].status = "committed"],
          balance |-> balance - charges[tx].amount]

\* commit: compare-and-set pending -> committed together with the debit;
\* on a terminal charge a no-op that reports the prior terminal status
commit_charge(tx) ==
    IF charges[tx].status = "none"
    THEN [status |-> "not_found", charges |-> charges, balance |-> balance]
    ELSE IF charges[tx].status = "pending"
    THEN [status |-> "committed",
          charges |-> [charges EXCEPT ![tx].status = "committed"],
          balance |-> balance - charges[tx].amount]
    ELSE [status |-> IF charges[tx].status = "committed" THEN "already_committed"
                     ELSE "already_released",
          charges |-> charges, balance |-> balance]

\* release that overwrites the status of any existing row
release_charge_Overwrite(tx, reason) ==
    IF charges[tx].status = "none"
    THEN [status |-> "not_found", charges |-> charges]
    ELSE [status |-> "released",
          charges |-> [charges EXCEPT ![tx].status = "released"]]

\* release: compare-and-set pending -> released, no balance mutation; on a
\* terminal charge a no-op (the reason is logged, it decides nothing)
release_charge(tx, reason) ==
    IF charges[tx].status = "none"
    THEN [status |-> "not_found", charges |-> charges]
    ELSE IF charges[tx].status = "pending"
    THEN [status |-> "released",
          charges |-> [charges EXCEPT ![tx].status = "released"]]
    ELSE [status |-> IF charges[tx].status = "committed" THEN "already_committed"
                     ELSE "already_released",
          charges |-> charges]

(***************************************************************************)
(* User metadata service and generation invoker.                           *)
(***************************************************************************)
\* UserService.increment_metadata_counter(user, key, delta, min_value)
increment_metadata_counter(value, delta, min_value) ==
    IF value + delta < min_value THEN min_value ELSE value + delta

is_free_model(model_id) == model_id \in FreeModels

\* gen_result.get('success', False) of the result dict KieGenerator.generate
\* returns for an outcome; a failure and a timeout result differ in message
\* and error_code only, which the coordinator passes on and never reads
GenSuccess(outcome) == outcome = "success"

\* what a call keeps of an outcome: success, failure (failed or timed out),
\* or the exception
GenLabel(outcome) ==
    IF outcome = "raise" THEN "raise"
    ELSE IF GenSuccess(outcome) THEN "success" ELSE "failure"

(***************************************************************************)
(* generate_with_payment: the state of one call.                           *)
(***************************************************************************)
NoResult == [success |-> FALSE, error_code |-> "none",
             charge_task_id |-> None, payment_status |-> "none"]

IdleReq == [pc |-> "idle", model_id |-> "none", amount |-> 0, task_id |-> None,
            reserve_balance |-> FALSE, call_no |-> 0,
            referral_used |-> FALSE, referral_uses_left |-> 0,
            charge_task_id |-> None, charge_status |-> "none", inserted |-> FALSE,
            gen |-> "none", result |-> NoResult,
            trace |-> <<>>, delta |-> 0]

\* per tx id: rows inserted, generations invoked, whether one of them
\* succeeded, balance debits, pending->committed and pending->released
\* transitions, and calls that were told "committed" or "released"
NoHist == [inserts |-> 0, gens |-> 0, genok |-> FALSE,
           debits |-> 0, commits |-> 0, releases |-> 0, firsts |-> 0]

\* execute-then-decide: a paid call generates before it reserves
FirstAwait_GenerateFirst(model_id, amount) ==
    IF is_free_model(model_id) THEN "free_generate"
    ELSE IF db_service /\ amount <= ReferralMaxRub THEN "get_metadata"
    ELSE "generate"

\* the FREE check forgotten: a FREE model is treated like a paid one
FirstAwait_NoFreeCheck(model_id, amount) ==
    IF db_service /\ amount <= ReferralMaxRub THEN "get_metadata"
    ELSE "create_pending_charge"

\* where the call first suspends: the FREE check, then the referral precheck
FirstAwait(model_id, amount) ==
    IF is_free_model(model_id) THEN "free_generate"
    ELSE IF db_service /\ amount <= ReferralMaxRub THEN "get_metadata"
    ELSE "create_pending_charge"

\* the `referral_uses_left > 0` test forgotten: a credit is taken whatever was read
AfterMetadata_NoUsesCheck(uses_left) == "increment_metadata_counter"

\* if referral_uses_left > 0: take a credit, else charge normally
AfterMetadata(uses_left) ==
    IF uses_left > 0 THEN "increment_metadata_counter" ELSE "create_pending_charge"

\* charge_task_id = task_id or f"charge_{user_id}_{model_id}_{uuid4().hex[:8]}"
ChargeTaskId(task_id, call_no) ==
    IF task_id # None THEN task_id ELSE Cardinality(RetryTaskId) + call_no

\* the insufficient_balance branch forgotten
AfterReserve_NoBalanceBranch(status) ==
    IF status = "already_committed" THEN "replay_generate" ELSE "generate"

\* the branch taken on create_pending_charge's status
AfterReserve(status) ==
    IF status = "already_committed" THEN "replay_generate"
    ELSE IF status = "insufficient_balance" THEN "done"
    ELSE "generate"

\* the result returned when the reservation reports insufficient_balance
InsufficientResult(tx, status) ==
    [success |-> FALSE, error_code |-> "INSUFFICIENT_BALANCE",
     charge_task_id |-> tx, payment_status |-> status]

\* commit whatever the generation returned
AfterGenerate_AlwaysCommit(outcome) == "commit_charge"

\* if gen_result.get('success'): commit, else: release
AfterGenerate(outcome) ==
    IF GenSuccess(outcome) THEN "commit_charge" ELSE "release_charge"

\* {**gen_result, 'charge_task_id': ..., 'payment_status': ...}
\* (error_code is the generator's own: absent on success)
Result(success, tx, payment_status) ==
    [success |-> success,
     error_code |-> IF success THEN "none" ELSE "generator",
     charge_task_id |-> tx, payment_status |-> payment_status]

\* a replay reported as a fresh commit
ReplayStatus_Committed == "committed"

\* payment_status of a replay on a committed charge
ReplayStatus == "already_committed"

\* the arguments of a call; a FREE model's call ignores amount, task_id and
\* reserve_balance, so one combination of them stands for all
CallInputs ==
    [model_id : Models \ FreeModels, amount : Amounts,
     task_id : TaskIdInputs, reserve_balance : BOOLEAN]
    \cup [model_id : FreeModels, amount : {30}, task_id : {None},
          reserve_balance : {FALSE}]

Init ==
    /\ balance = InitBalance
    /\ referral_free_uses = MaxFreeUses
    /\ charges = [t \in TxIds |-> NoCharge]
    /\ req = [s \in Slots |-> IdleReq]
    /\ calls = 0
    /\ hist = [t \in TxIds |-> NoHist]
    /\ NonPaymentInit

\* a caller invokes generate_with_payment; the call runs to its first await
Call(s, model_id, amount, task_id, reserve_balance) ==
    /\ req[s].pc = "idle"
    /\ \A q \in Slots : q < s => req[q].pc # "idle"
    /\ calls < MaxCalls
    /\ calls' = calls + 1
    /\ req' = [req EXCEPT ![s] =
                  [IdleReq EXCEPT !.pc = FirstAwait(model_id, amount),
                                  !.model_id = model_id, !.amount = amount,
                                  !.task_id = task_id,
                                  !.reserve_balance = reserve_balance,
                                  !.call_no = calls + 1]]
    /\ UNCHANGED <<balance, referral_free_uses, charges, hist>>
    /\ UNCHANGED nonPaymentVars

\* FREE model: await generator.generate, return tagged free_tier
FreeGenerate(s, outcome) ==
    /\ req[s].pc = "free_generate"
    /\ req' = [req EXCEPT ![s].gen = GenLabel(outcome),
                          ![s].trace = Append(@, "generate"),
                          ![s].pc = IF outcome = "raise" THEN "raised" ELSE "done",
                          ![s].result = IF outcome = "raise" THEN NoResult
                                        ELSE Result(GenSuccess(outcome), None, "free_tier")]
    /\ UNCHANGED <<balance, referral_free_uses, charges, calls, hist>>
    /\ UNCHANGED nonPaymentVars

\* meta = await user_service.get_metadata(user_id); an exception falls
\* through to normal charging
GetMetadata(s, ok) ==
    /\ req[s].pc = "get_metadata"
    /\ req' = [req EXCEPT ![s].referral_uses_left = IF ok THEN referral_free_uses ELSE 0,
                          ![s].pc = IF ok THEN AfterMetadata(referral_free_uses)
                                    ELSE "create_pending_charge"]
    /\ UNCHANGED <<balance, referral_free_uses, charges, calls, hist>>
    /\ UNCHANGED nonPaymentVars

\* the decrement issued without min_value=0
TakeReferral_NoMinValue(s, ok) ==
    /\ req[s].pc = "increment_metadata_counter"
    /\ IF ok
       THEN /\ referral_free_uses' = referral_free_uses - 1
            /\ req' = [req EXCEPT ![s].referral_used = TRUE,
                                  ![s].referral_uses_left = @ - 1,
                                  ![s].trace = Append(@, "take_referral"),
                                  ![s].pc = "referral_generate"]
       ELSE /\ req' = [req EXCEPT ![s].pc = "create_pending_charge"]
            /\ UNCHANGED referral_free_uses
    /\ UNCHANGED <<balance, charges, calls, hist>>
    /\ UNCHANGED nonPaymentVars

\* await increment_metadata_counter(user_id, "referral_free_uses", -1, min_value=0)
TakeReferral(s, ok) ==
    /\ req[s].pc = "increment_metadata_counter"
    /\ IF ok
       THEN /\ referral_free_uses' = increment_metadata_counter(referral_free_uses, -1, 0)
            /\ req' = [req EXCEPT ![s].referral_used = TRUE,
                                  ![s].referral_uses_left = @ - 1,
                                  ![s].trace = Append(@, "take_referral"),
                                  ![s].pc = "referral_generate"]
       ELSE /\ req' = [req EXCEPT ![s].pc = "create_pending_charge"]
            /\ UNCHANGED referral_free_uses
    /\ UNCHANGED <<balance, charges, calls, hist>>
    /\ UNCHANGED nonPaymentVars

\* the referral-free generation debiting the balance on success, as a paid one
ReferralGenerate_Debit(s, outcome) ==
    /\ req[s].pc = "referral_generate"
    /\ req' = [req EXCEPT ![s].gen = GenLabel(outcome),
                          ![s].trace = Append(@, "generate"),
                          ![s].pc = IF outcome = "raise" THEN "raised"
                                    ELSE IF GenSuccess(outcome) THEN "done"
                                    ELSE "restore_referral",
                          ![s].result = IF outcome = "success"
                                        THEN Result(TRUE, None, "referral_free")
                                        ELSE NoResult]
    /\ balance' = IF outcome = "success" THEN balance - req[s].amount ELSE balance
    /\ UNCHANGED <<referral_free_uses, charges, calls, hist>>
    /\ UNCHANGED nonPaymentVars

\* referral-free generation: on success return tagged referral_free
ReferralGenerate(s, outcome) ==
    /\ req[s].pc = "referral_generate"
    /\ req' = [req EXCEPT ![s].gen = GenLabel(outcome),
                          ![s].trace = Append(@, "generate"),
                          ![s].pc = IF outcome = "raise" THEN "raised"
                                    ELSE IF GenSuccess(outcome) THEN "done"
                                    ELSE "restore_referral",
                          ![s].result = IF outcome = "success"
                                        THEN Result(TRUE, None, "referral_free")
                                        ELSE NoResult]
    /\ UNCHANGED <<balance, referral_free_uses, charges, calls, hist>>
    /\ UNCHANGED nonPaymentVars

\* FAIL/TIMEOUT: await increment_metadata_counter(user_id, "referral_free_uses", +1);
\* an exception is logged and the call returns all the same
RestoreReferral(s, ok) ==
    /\ req[s].pc = "restore_referral"
    /\ referral_free_uses' = IF ok THEN increment_metadata_counter(referral_free_uses, 1, 0)
                             ELSE referral_free_uses
    /\ req' = [req EXCEPT ![s].trace = IF ok THEN Append(@, "restore_referral") ELSE @,
                          ![s].pc = "done",
                          ![s].result = Result(FALSE, None, "referral_free_failed")]
    /\ UNCHANGED <<balance, charges, calls, hist>>
    /\ UNCHANGED nonPaymentVars

\* create_pending_charge called without the caller's reserve_balance argument
Reserve_SoftReservation(s) ==
    /\ req[s].pc = "create_pending_charge"
    /\ LET tx == ChargeTaskId(req[s].task_id, req[s].call_no)
           r  == create_pending_charge(tx, req[s].amount, FALSE)
           to == AfterReserve(r.status)
       IN  /\ charges' = r.charges
           /\ hist' = [hist EXCEPT ![tx].inserts =
                          IF r.charges[tx] # charges[tx] THEN @ + 1 ELSE @]
           /\ req' = [req EXCEPT ![s].charge_task_id = tx,
                                 ![s].charge_status = r.status,
                                 ![s].inserted = (r.charges # charges),
                                 ![s].amount = 0, ![s].task_id = None,
                                 ![s].reserve_balance = FALSE, ![s].call_no = 0,
                                 ![s].trace = Append(@, "reserve"),
                                 ![s].pc = to,
                                 ![s].result = IF to = "done"
                                               THEN InsufficientResult(tx, r.status)
                                               ELSE NoResult]
    /\ UNCHANGED <<balance, referral_free_uses, calls>>
    /\ UNCHANGED nonPaymentVars

\* charge_result = await charge_manager.create_pending_charge(...), then the
\* branch on its status; insufficient_balance returns at once
Reserve(s) ==
    /\ req[s].pc = "create_pending_charge"
    /\ LET tx == ChargeTaskId(req[s].task_id, req[s].call_no)
           r  == create_pending_charge(tx, req[s].amount, req[s].reserve_balance)
           to == AfterReserve(r.status)
       IN  /\ charges' = r.charges
           /\ hist' = [hist EXCEPT ![tx].inserts =
                          IF r.charges[tx] # charges[tx] THEN @ + 1 ELSE @]
           /\ req' = [req EXCEPT ![s].charge_task_id = tx,
                                 ![s].charge_status = r.status,
                                 ![s].inserted = (r.charges # charges),
                                 ![s].amount = 0, ![s].task_id = None,
                                 ![s].reserve_balance = FALSE, ![s].call_no = 0,
                                 ![s].trace = Append(@, "reserve"),
                                 ![s].pc = to,
                                 ![s].result = IF to = "done"
                                               THEN InsufficientResult(tx, r.status)
                                               ELSE NoResult]
    /\ UNCHANGED <<balance, referral_free_uses, calls>>
    /\ UNCHANGED nonPaymentVars

\* already_committed: "Already paid, just generate", return tagged already_committed
ReplayGenerate(s, outcome) ==
    /\ req[s].pc = "replay_generate"
    /\ LET tx == req[s].charge_task_id
       IN  /\ hist' = [hist EXCEPT ![tx].gens = @ + 1,
                                   ![tx].genok = @ \/ GenSuccess(outcome)]
           /\ req' = [req EXCEPT ![s].gen = GenLabel(outcome),
                                 ![s].trace = Append(@, "generate"),
                                 ![s].pc = IF outcome = "raise" THEN "raised" ELSE "done",
                                 ![s].result = IF outcome = "raise" THEN NoResult
                                               ELSE Result(GenSuccess(outcome), tx, ReplayStatus)]
    /\ UNCHANGED <<balance, referral_free_uses, charges, calls>>
    /\ UNCHANGED nonPaymentVars

\* gen_result = await generator.generate(...), then the branch on success; an
\* exception leaves the coroutine (there is no try around the call)
Generate(s, outcome) ==
    /\ req[s].pc = "generate"
    /\ LET tx == req[s].charge_task_id
       IN  /\ hist' = [hist EXCEPT ![tx].gens = @ + 1,
                                   ![tx].genok = @ \/ GenSuccess(outcome)]
           /\ req' = [req EXCEPT ![s].gen = GenLabel(outcome),
                                 ![s].trace = Append(@, "generate"),
                                 ![s].pc = IF outcome = "raise" THEN "raised"
                                           ELSE AfterGenerate(outcome)]
    /\ UNCHANGED <<balance, referral_free_uses, charges, calls>>
    /\ UNCHANGED nonPaymentVars

\* the commit result ignored: 'payment_status': 'committed' whatever
\* commit_charge reported
Commit_ReportsCommitted(s) ==
    /\ req[s].pc = "commit_charge"
    /\ LET tx == req[s].charge_task_id
           r  == commit_charge(tx)
       IN  /\ charges' = r.charges
           /\ balance' = r.balance
           /\ hist' = [hist EXCEPT ![tx].commits =
                                       IF r.charges[tx] # charges[tx] THEN @ + 1 ELSE @,
                                   ![tx].debits =
                                       IF r.balance # balance THEN @ + 1 ELSE @,
                                   ![tx].firsts =
                                       IF r.status = "committed" THEN @ + 1 ELSE @]
           /\ req' = [req EXCEPT ![s].trace = Append(@, "commit"),
                                 ![s].delta = @ + (r.balance - balance),
                                 ![s].pc = "done",
                                 ![s].result = Result(req[s].gen = "success", tx, "committed")]
    /\ UNCHANGED <<referral_free_uses, calls>>
    /\ UNCHANGED nonPaymentVars

\* SUCCESS: commit_result = await charge_manager.commit_charge(charge_task_id)
Commit(s) ==
    /\ req[s].pc = "commit_charge"
    /\ LET tx == req[s].charge_task_id
           r  == commit_charge(tx)
       IN  /\ charges' = r.charges
           /\ balance' = r.balance
           /\ hist' = [hist EXCEPT ![tx].commits =
                                       IF r.charges[tx] # charges[tx] THEN @ + 1 ELSE @,
                                   ![tx].debits =
                                       IF r.balance # balance THEN @ + 1 ELSE @,
                                   ![tx].firsts =
                                       IF r.status = "committed" THEN @ + 1 ELSE @]
           /\ req' = [req EXCEPT ![s].trace = Append(@, "commit"),
                                 ![s].delta = @ + (r.balance - balance),
                                 ![s].pc = "done",
                                 ![s].result = Result(req[s].gen = "success", tx, r.status)]
    /\ UNCHANGED <<referral_free_uses, calls>>
    /\ UNCHANGED nonPaymentVars

\* the release result ignored: 'payment_status': 'released' whatever
\* release_charge reported
Release_ReportsReleased(s) ==
    /\ req[s].pc = "release_charge"
    /\ LET tx == req[s].charge_task_id
           r  == release_charge(tx, "generation_failed")
       IN  /\ charges' = r.charges
           /\ hist' = [hist EXCEPT ![tx].releases =
                                       IF r.charges[tx] # charges[tx] THEN @ + 1 ELSE @,
                                   ![tx].firsts =
                                       IF r.status = "released" THEN @ + 1 ELSE @]
           /\ req' = [req EXCEPT ![s].trace = Append(@, "release"),
                                 ![s].pc = "done",
                                 ![s].result = Result(req[s].gen = "success", tx, "released")]
    /\ UNCHANGED <<balance, referral_free_uses, calls>>
    /\ UNCHANGED nonPaymentVars

\* FAIL/TIMEOUT: release_result = await charge_manager.release_charge(id, reason)
Release(s) ==
    /\ req[s].pc = "release_charge"
    /\ LET tx == req[s].charge_task_id
           r  == release_charge(tx, "generation_failed")
       IN  /\ charges' = r.charges
           /\ hist' = [hist EXCEPT ![tx].releases =
                                       IF r.charges[tx] # charges[tx] THEN @ + 1 ELSE @,
                                   ![tx].firsts =
                                       IF r.status = "released" THEN @ + 1 ELSE @]
           /\ req' = [req EXCEPT ![s].trace = Append(@, "release"),
                                 ![s].pc = "done",
                                 ![s].result = Result(req[s].gen = "success", tx, r.status)]
    /\ UNCHANGED <<balance, referral_free_uses, calls>>
    /\ UNCHANGED nonPaymentVars

\* the caller has taken the result (or the exception); the slot is free again
Return(s) ==
    /\ req[s].pc \in {"done", "raised"}
    /\ req' = [req EXCEPT ![s] = IdleReq]
    /\ UNCHANGED <<balance, referral_free_uses, charges, calls, hist>>
    /\ UNCHANGED nonPaymentVars

Next ==
    \/ \E s \in Slots, i \in CallInputs :
          Call(s, i.model_id, i.amount, i.task_id, i.reserve_balance)
    \/ \E s \in Slots, o \in GenOutcomes : FreeGenerate(s, o)
    \/ \E s \in Slots, ok \in BOOLEAN : GetMetadata(s, ok)
    \/ \E s \in Slots, ok \in BOOLEAN : TakeReferral(s, ok)
    \/ \E s \in Slots, o \in GenOutcomes : ReferralGenerate(s, o)
    \/ \E s \in Slots, ok \in BOOLEAN : RestoreReferral(s, ok)
    \/ \E s \in Slots : Reserve(s)
    \/ \E s \in Slots, o \in GenOutcomes : ReplayGenerate(s, o)
    \/ \E s \in Slots, o \in GenOutcomes : Generate(s, o)
    \/ \E s \in Slots : Commit(s)
    \/ \E s \in Slots : Release(s)
    \/ \E s \in Slots : Return(s)

Spec == Init /\ [][Next]_vars

\* the callers that ask for a hard reservation: reserve_balance=True on every call
ReservedCallInputs == {i \in CallInputs : is_free_model(i.model_id) \/ i.reserve_balance}

NextReserved ==
    \/ \E s \in Slots, i \in ReservedCallInputs :
          Call(s, i.model_id, i.amount, i.task_id, i.reserve_balance)
    \/ \E s \in Slots, o \in GenOutcomes : FreeGenerate(s, o)
    \/ \E s \in Slots, ok \in BOOLEAN : GetMetadata(s, ok)
    \/ \E s \in Slots, ok \in BOOLEAN : TakeReferral(s, ok)
    \/ \E s \in Slots, o \in GenOutcomes : ReferralGenerate(s, o)
    \/ \E s \in Slots, ok \in BOOLEAN : RestoreReferral(s, ok)
    \/ \E s \in Slots : Reserve(s)
    \/ \E s \in Slots, o \in GenOutcomes : ReplayGenerate(s, o)
    \/ \E s \in Slots, o \in GenOutcomes : Generate(s, o)
    \/ \E s \in Slots : Commit(s)
    \/ \E s \in Slots : Release(s)
    \/ \E s \in Slots : Return(s)

\* the payment flow when every reservation is made with reserve_balance=True
SpecReserved == Init /\ [][NextReserved]_vars

(***************************************************************************)
(* Idempotency store: idem_try_start, idem_finish, idem_get.               *)
(***************************************************************************)
\* now - v.created_at > ttl_s
Expired(e, now, ttl_s) == now - e.created_at > ttl_s

\* purge expired: every entry that is expired under the caller's ttl_s is
\* popped, whatever its key
Purge(st, now, ttl_s) ==
    [k \in Keys |-> IF st[k] # NoEntry /\ Expired(st[k], now, ttl_s)
                    THEN NoEntry ELSE st[k]]

\* the presence test forgotten: every call starts the operation anew
idem_try_start_NoKeyCheck(st, key, ttl_s, now) ==
    [started |-> TRUE, existing |-> NoEntry,
     store |-> [Purge(st, now, ttl_s) EXCEPT ![key] = IdemEntry(now, "started", None)]]

\* the body of idem_try_start under _LOCK: purge, then (False, entry) for a
\* key that is present, else insert a 'started' entry and (True, None)
idem_try_start(st, key, ttl_s, now) ==
    LET purged == Purge(st, now, ttl_s)
    IN  IF purged[key] # NoEntry
        THEN [started |-> FALSE, existing |-> purged[key], store |-> purged]
        ELSE [started |-> TRUE, existing |-> NoEntry,
              store |-> [purged EXCEPT ![key] = IdemEntry(now, "started", None)]]

\* idem_finish: status and value of an entry that is present are overwritten
idem_finish(st, key, status, value) ==
    IF st[key] # NoEntry
    THEN [st EXCEPT ![key].status = status, ![key].value = value]
    ELSE st

\* idem_get: _STORE.get(key), no purge and no look at created_at
idem_get(st, key) == st[key]

RECURSIVE SumWaiting(_, _)
SumWaiting(w, as) ==
    IF as = {} THEN 0
    ELSE LET a == CHOOSE x \in as : TRUE
         IN  w[a] + SumWaiting(w, as \ {a})

\* the number of threads inside idem_try_start
InTryStart == SumWaiting(waiting, TryStartArgs)

\* a thread enters idem_try_start and reads the clock: now = time.time()
TryStartCall(key, ttl_s) ==
    /\ InTryStart < NumThreads
    /\ waiting' = [waiting EXCEPT ![[key |-> key, ttl_s |-> ttl_s]] = @ + 1]
    /\ ttls' = ttls \cup {ttl_s}
    /\ UNCHANGED <<STORE, clock, obs, starts>>
    /\ UNCHANGED <<paymentVars, dedupeVars, leaseVars, pricingVars, wizardVars>>

\* one of the waiting threads gets _LOCK, runs the body of idem_try_start with
\* the clock value it read, and returns
TryStartBody(key, ttl_s) ==
    /\ waiting[[key |-> key, ttl_s |-> ttl_s]] > 0
    /\ LET r == idem_try_start(STORE, key, ttl_s, clock)
       IN  /\ STORE' = r.store
           /\ obs' = [op |-> "try_start", key |-> key, ttl_s |-> ttl_s,
                      started |-> r.started, existing |-> r.existing]
           /\ starts' = IF r.started THEN [starts EXCEPT ![key] = clock]
                        ELSE starts
    /\ waiting' = [waiting EXCEPT ![[key |-> key, ttl_s |-> ttl_s]] = @ - 1]
    /\ UNCHANGED <<clock, ttls>>
    /\ UNCHANGED <<paymentVars, dedupeVars, leaseVars, pricingVars, wizardVars>>

\* a thread that is in no other call runs idem_finish(key, status, value)
IdemFinish(key, status, value) ==
    /\ InTryStart < NumThreads
    /\ STORE' = idem_finish(STORE, key, status, value)
    /\ UNCHANGED <<clock, waiting, obs, ttls, starts>>
    /\ UNCHANGED <<paymentVars, dedupeVars, leaseVars, pricingVars, wizardVars>>

\* a thread that is in no other call runs idem_get(key)
IdemGet(key) ==
    /\ InTryStart < NumThreads
    /\ obs' = [NoObs EXCEPT !.op = "get", !.key = key,
                            !.existing = idem_get(STORE, key)]
    /\ UNCHANGED <<STORE, clock, waiting, ttls, starts>>
    /\ UNCHANGED <<paymentVars, dedupeVars, leaseVars, pricingVars, wizardVars>>

\* time passes between calls: a call of the store, a sweep of a dictionary
\* under a lock, begins and returns within one tick of the clock, so the
\* value a waiting thread read is still the clock when it gets the lock
Tick ==
    /\ clock < MaxTime
    /\ InTryStart = 0
    /\ clock' = clock + 1
    /\ obs' = NoObs
    /\ UNCHANGED <<STORE, waiting, ttls, starts>>
    /\ UNCHANGED <<paymentVars, dedupeVars, leaseVars, pricingVars, wizardVars>>

NextIdem ==
    \/ \E a \in TryStartArgs : TryStartCall(a.key, a.ttl_s)
    \/ \E a \in TryStartArgs : TryStartBody(a.key, a.ttl_s)
    \/ \E k \in Keys, f \in FinishInputs : IdemFinish(k, f.status, f.value)
    \/ \E k \in Keys : IdemGet(k)
    \/ Tick

\* the idempotency store used by NumThreads threads
SpecIdem == Init /\ [][NextIdem]_vars

(***************************************************************************)
(* Update dedupe: mark_update_processed and UpdateDedupeMiddleware.        *)
(***************************************************************************)
\* INSERT INTO processed_updates ... ON CONFLICT (update_id) DO NOTHING
InsertOnConflictDoNothing(table, update_id) == table \cup {update_id}

\* SELECT update_id FROM processed_updates WHERE update_id = $1
SelectUpdate(table, update_id) == update_id \in table

\* `if result: return True  else: (warning) return True`
MarkResult(result) == IF result THEN TRUE ELSE TRUE

\* is_update_processed: `return result is not None`, and on an exception of
\* the query `return False`
is_update_processed(table, update_id, ok) ==
    IF ok THEN SelectUpdate(table, update_id) ELSE FALSE

\* the middleware calling the next handler whatever the marking returned
AfterMark_AlwaysNext(is_first_time) == "next_handler"

\* `if not is_first_time: return None`, else `await next_handler(...)`
AfterMark(is_first_time) == IF ~is_first_time THEN "dropped" ELSE "next_handler"

\* an update is delivered and the middleware is called: without update_id it
\* passes through, else it awaits mark_update_processed, which awaits the INSERT
Deliver(d, update_id) ==
    /\ mw[d].pc = "idle"
    /\ \A e \in Deliveries : e < d => mw[e].pc # "idle"
    /\ mw' = [mw EXCEPT ![d] = [IdleDelivery EXCEPT
                  !.update_id = update_id,
                  !.pc = IF update_id = NoUpdateId THEN "next_handler" ELSE "insert"]]
    /\ UNCHANGED <<processed_updates, handled, firsts>>
    /\ UNCHANGED <<paymentVars, idemVars, leaseVars, pricingVars, wizardVars>>

\* await db_service.execute(INSERT ...); an exception makes
\* mark_update_processed return False and the middleware drop the update
Insert(d, ok) ==
    /\ mw[d].pc = "insert"
    /\ IF ok
       THEN /\ processed_updates' =
                  InsertOnConflictDoNothing(processed_updates, mw[d].update_id)
            /\ mw' = [mw EXCEPT ![d].pc = "select"]
       ELSE /\ mw' = [mw EXCEPT ![d].is_first_time = FALSE,
                                ![d].storage_error = TRUE,
                                ![d].pc = AfterMark(FALSE)]
            /\ UNCHANGED processed_updates
    /\ UNCHANGED <<handled, firsts>>
    /\ UNCHANGED <<paymentVars, idemVars, leaseVars, pricingVars, wizardVars>>

\* result = await db_service.fetchrow(SELECT ...), the return of
\* mark_update_processed, and the middleware's branch on it
Select(d, ok) ==
    /\ mw[d].pc = "select"
    /\ LET is_first_time ==
               IF ok THEN MarkResult(SelectUpdate(processed_updates, mw[d].update_id))
               ELSE FALSE
       IN  /\ mw' = [mw EXCEPT ![d].is_first_time = is_first_time,
                               ![d].storage_error = ~ok,
                               ![d].pc = AfterMark(is_first_time)]
           /\ firsts' = [firsts EXCEPT ![mw[d].update_id] =
                            IF is_first_time THEN @ + 1 ELSE @]
    /\ UNCHANGED <<processed_updates, handled>>
    /\ UNCHANGED <<paymentVars, idemVars, leaseVars, pricingVars, wizardVars>>

\* return await next_handler(update, context)
NextHandler(d) ==
    /\ mw[d].pc = "next_handler"
    /\ mw' = [mw EXCEPT ![d].pc = "done"]
    /\ handled' = IF mw[d].update_id = NoUpdateId THEN handled
                  ELSE [handled EXCEPT ![mw[d].update_id] = @ + 1]
    /\ UNCHANGED <<processed_updates, firsts>>
    /\ UNCHANGED <<paymentVars, idemVars, leaseVars, pricingVars, wizardVars>>

NextDedupe ==
    \/ \E d \in Deliveries, u \in UpdateIds \cup {NoUpdateId} : Deliver(d, u)
    \/ \E d \in Deliveries, ok \in BOOLEAN : Insert(d, ok)
    \/ \E d \in Deliveries, ok \in BOOLEAN : Select(d, ok)
    \/ \E d \in Deliveries : NextHandler(d)

\* the middleware under repeated and concurrent deliveries
SpecDedupe == Init /\ [][NextDedupe]_vars

(***************************************************************************)
(* Singleton instance lock: SingletonLock and main() of main_render.py.    *)
(***************************************************************************)
\* the lease row can be claimed: unclaimed, or its lease has expired
LeaseFree(l) == l.holder = NoInstance \/ l.remaining = 0

\* acquire that takes the row whoever holds it
lock_acquire_NoCompareAndSet(l, i) ==
    [ok |-> TRUE, lease |-> [holder |-> i, remaining |-> LeaseTtl]]

\* SingletonLock.acquire: claim the row if it is unclaimed or expired, in one
\* compare-and-set on holder and expiry
lock_acquire(l, i) ==
    IF LeaseFree(l)
    THEN [ok |-> TRUE, lease |-> [holder |-> i, remaining |-> LeaseTtl]]
    ELSE [ok |-> FALSE, lease |-> l]

\* the heartbeat extends the expiry of the lease the instance holds
lock_heartbeat(l, i) ==
    IF l.holder = i
    THEN [ok |-> TRUE, lease |-> [l EXCEPT !.remaining = LeaseTtl]]
    ELSE [ok |-> FALSE, lease |-> l]

\* SingletonLock.release: the row is given up by its holder only
lock_release(l, i) == IF l.holder = i THEN UnclaimedLease ELSE l

\* one tick less until an expiry
TickDown(n) == IF n > 0 THEN n - 1 ELSE 0

\* `if database_url and not dry_run:` the instance takes part in the locking
UsesLock(e) == e.database_url /\ ~e.dry_run

\* after the environment is read: acquire the lock, or go on without one
AfterBoot(e) == IF UsesLock(e) THEN "acquire" ELSE "bot_mode_guard"

\* the standby block forgotten: after the last failed attempt the instance
\* goes on as if it held the lock
AfterAttempt_NoStandby(ok, attempt) ==
    IF ok THEN "init_services"
    ELSE IF attempt < MaxRetries THEN "acquire"
    ELSE "init_services"

\* the retry loop: break on success, sleep and retry while attempts are
\* left, else standby
AfterAttempt(ok, attempt) ==
    IF ok THEN "init_services"
    ELSE IF attempt < MaxRetries THEN "acquire"
    ELSE "standby_wait"

\* the standby loop: on shutdown leave, else retry the acquisition
AfterStandbyWait(shutdown) == IF shutdown THEN "standby_exit" ELSE "standby_acquire"

\* the check of the standby acquire result forgotten: the instance leaves
\* standby whatever acquire returned
AfterStandbyAcquire_NoCheck(ok) == "init_services"

\* `if lock_acquired: break`, else wait again
AfterStandbyAcquire(ok) == IF ok THEN "init_services" ELSE "standby_wait"

\* main() starts: self check, config, signal handlers, health check server
\* with set_health_state("starting", "boot", ready=False), then the
\* environment decides whether a lock is taken
Start(i, e) ==
    /\ inst[i].pc = "boot"
    /\ \A j \in Instances : j < i => inst[j].pc # "boot"
    /\ inst' = [inst EXCEPT ![i] = [BootInstance EXCEPT
                   !.database_url = e.database_url, !.dry_run = e.dry_run,
                   !.pc = AfterBoot(e),
                   !.mode = "starting",
                   !.attempt = IF UsesLock(e) THEN 1 ELSE 0]]
    /\ UNCHANGED lease
    /\ UNCHANGED <<paymentVars, idemVars, dedupeVars, pricingVars, wizardVars>>

\* lock_acquired = await singleton_lock.acquire(timeout=5.0) in the retry
\* loop; a failed attempt is followed by asyncio.sleep(retry_delay), the last
\* one by set_health_state("standby", "lock_not_acquired", ready=False)
AcquireAttempt(i) ==
    /\ inst[i].pc = "acquire"
    /\ LET r == lock_acquire(lease, i)
       IN  /\ lease' = r.lease
           /\ inst' = [inst EXCEPT
                 ![i].lock_acquired = r.ok,
                 ![i].acquired = r.ok,
                 ![i].lease_left = IF r.ok THEN r.lease.remaining ELSE @,
                 ![i].acquired_free = IF r.ok THEN LeaseFree(lease) ELSE @,
                 ![i].attempt = IF ~r.ok /\ @ < MaxRetries THEN @ + 1 ELSE 0,
                 ![i].mode = IF AfterAttempt(r.ok, inst[i].attempt) = "standby_wait"
                             THEN "standby" ELSE @,
                 ![i].pc = AfterAttempt(r.ok, inst[i].attempt)]
    /\ UNCHANGED <<paymentVars, idemVars, dedupeVars, pricingVars, wizardVars>>

\* standby: await asyncio.wait_for(shutdown_event.wait(), timeout=5)
StandbyWait(i) ==
    /\ inst[i].pc = "standby_wait"
    /\ inst' = [inst EXCEPT ![i].pc = AfterStandbyWait(inst[i].shutdown)]
    /\ UNCHANGED lease
    /\ UNCHANGED <<paymentVars, idemVars, dedupeVars, pricingVars, wizardVars>>

\* standby: lock_acquired = await singleton_lock.acquire(timeout=5.0)
StandbyAcquire(i) ==
    /\ inst[i].pc = "standby_acquire"
    /\ LET r == lock_acquire(lease, i)
       IN  /\ lease' = r.lease
           /\ inst' = [inst EXCEPT
                 ![i].lock_acquired = r.ok,
                 ![i].acquired = r.ok,
                 ![i].lease_left = IF r.ok THEN r.lease.remaining ELSE @,
                 ![i].acquired_free = IF r.ok THEN LeaseFree(lease) ELSE @,
                 ![i].pc = AfterStandbyAcquire(r.ok)]
    /\ UNCHANGED <<paymentVars, idemVars, dedupeVars, pricingVars, wizardVars>>

\* standby left on shutdown: close, release the lock object, return
StandbyExit(i) ==
    /\ inst[i].pc = "standby_exit"
    /\ lease' = lock_release(lease, i)
    /\ inst' = [inst EXCEPT ![i] = ExitedInstance]
    /\ UNCHANGED <<paymentVars, idemVars, dedupeVars, pricingVars, wizardVars>>

\* get_health_state(): the health state of the process, as set_health_state
\* left it
get_health_state(i) == [mode |-> inst[i].mode, ready |-> inst[i].ready]

\* the readiness probe answering as the liveness probe does
readyz_AlwaysOk(state) == 200

\* GET /readyz: 200 if the mode is active and ready is set, else 503
readyz(state) == IF state.mode = "active" /\ state.ready THEN 200 ELSE 503

\* Step 3.5: storage and database services are initialised; an exception of
\* `await storage.initialize()` or `await db_service.initialize()` is caught
\* nowhere in main() and ends the process in `except Exception: sys.exit(1)`
InitServices(i, ok) ==
    /\ inst[i].pc = "init_services"
    /\ inst' = IF ok
               THEN [inst EXCEPT ![i].db_services = TRUE, ![i].pc = "bot_mode_guard"]
               ELSE [inst EXCEPT ![i] = Exited(1)]
    /\ UNCHANGED lease
    /\ UNCHANGED <<paymentVars, idemVars, dedupeVars, pricingVars, wizardVars>>

\* Step 4: BOT_MODE (read from the environment, which does not change while
\* the process runs) other than polling: close, release, return
BotModeGuard(i, bot_mode) ==
    /\ inst[i].pc = "bot_mode_guard"
    /\ IF bot_mode # "polling"
       THEN /\ lease' = lock_release(lease, i)
            /\ inst' = [inst EXCEPT ![i] = ExitedInstance]
       ELSE /\ inst' = [inst EXCEPT ![i].pc = "validate_startup"]
            /\ UNCHANGED lease
    /\ UNCHANGED <<paymentVars, idemVars, dedupeVars, pricingVars, wizardVars>>

\* try: validate_startup() / except StartupValidationError: what main() does
\* next; another exception is not caught and ends main()
AfterValidate(outcome) ==
    IF outcome = "ok" THEN "polling"
    ELSE IF outcome = "StartupValidationError" THEN "validation_exit"
    ELSE "uncaught"

\* Steps 5, 5.5, 6: after the webhook preflight, validate_startup() runs; on
\* a StartupValidationError: close, release, sys.exit(1); another exception
\* leaves main() and the process ends in `except Exception: sys.exit(1)` with
\* no release; else, with no await in between, the health state is set ready
\* and the polling task is created
ValidateStartup(i, outcome) ==
    /\ inst[i].pc = "validate_startup"
    /\ LET next == AfterValidate(outcome)
       IN  IF next = "polling"
           THEN /\ inst' = [inst EXCEPT ![i].mode = "active", ![i].ready = TRUE,
                                        ![i].polling = TRUE, ![i].pc = "polling"]
                /\ UNCHANGED lease
           ELSE IF next = "validation_exit"
           THEN /\ lease' = lock_release(lease, i)
                /\ inst' = [inst EXCEPT ![i] = Exited(1)]
           ELSE /\ inst' = [inst EXCEPT ![i] = Exited(1)]
                /\ UNCHANGED lease
    /\ UNCHANGED <<paymentVars, idemVars, dedupeVars, pricingVars, wizardVars>>

\* a handler of the polling instance runs generate_with_payment for a paid
\* model: the charge is reserved and the generation is awaited
HandlePaidUpdate(i) ==
    /\ inst[i].polling
    /\ ~inst[i].pending_charge
    /\ inst' = [inst EXCEPT ![i].pending_charge = TRUE]
    /\ UNCHANGED lease
    /\ UNCHANGED <<paymentVars, idemVars, dedupeVars, pricingVars, wizardVars>>

\* the generation of the handler returned: the charge is committed or released
SettleCharge(i) ==
    /\ inst[i].pending_charge
    /\ inst' = [inst EXCEPT ![i].pending_charge = FALSE]
    /\ UNCHANGED lease
    /\ UNCHANGED <<paymentVars, idemVars, dedupeVars, pricingVars, wizardVars>>

\* asyncio.wait returns: the shutdown event is set and polling is cancelled,
\* or polling ended by itself
StopPolling(i) ==
    /\ inst[i].pc = "polling"
    /\ inst' = [inst EXCEPT ![i].polling = FALSE, ![i].pc = "cleanup"]
    /\ UNCHANGED lease
    /\ UNCHANGED <<paymentVars, idemVars, dedupeVars, pricingVars, wizardVars>>

\* finally: db_service.close(), storage.close(), singleton_lock.release()
Cleanup(i) ==
    /\ inst[i].pc = "cleanup"
    /\ lease' = lock_release(lease, i)
    /\ inst' = [inst EXCEPT ![i] = ExitedInstance]
    /\ UNCHANGED <<paymentVars, idemVars, dedupeVars, pricingVars, wizardVars>>

\* SIGTERM/SIGINT: signal_handler sets the shutdown event and, if the lock is
\* held, schedules _emergency_lock_release
Signal(i) ==
    /\ inst[i].pc \notin {"boot", "exited"}
    /\ ~inst[i].shutdown
    /\ inst' = [inst EXCEPT ![i].shutdown = TRUE,
                            ![i].emergency = IF inst[i].acquired THEN "scheduled"
                                             ELSE @]
    /\ UNCHANGED lease
    /\ UNCHANGED <<paymentVars, idemVars, dedupeVars, pricingVars, wizardVars>>

\* _emergency_lock_release without `lock._acquired = False` and without the
\* cancel of the heartbeat task: the release is awaited with the heartbeat
\* still running
EmergencyStopHeartbeat_KeepHeartbeat(i) ==
    /\ inst[i].emergency = "scheduled"
    /\ inst' = [inst EXCEPT ![i].emergency = "releasing"]
    /\ UNCHANGED lease
    /\ UNCHANGED <<paymentVars, idemVars, dedupeVars, pricingVars, wizardVars>>

\* _emergency_lock_release up to its await: lock._acquired = False and the
\* heartbeat task is cancelled
EmergencyStopHeartbeat(i) ==
    /\ inst[i].emergency = "scheduled"
    /\ inst' = [inst EXCEPT ![i].acquired = FALSE, ![i].lease_left = 0,
                            ![i].emergency = "releasing"]
    /\ UNCHANGED lease
    /\ UNCHANGED <<paymentVars, idemVars, dedupeVars, pricingVars, wizardVars>>

\* await lock.release() of _emergency_lock_release
EmergencyRelease(i) ==
    /\ inst[i].emergency = "releasing"
    /\ lease' = lock_release(lease, i)
    /\ inst' = [inst EXCEPT ![i].emergency = "none"]
    /\ UNCHANGED <<paymentVars, idemVars, dedupeVars, pricingVars, wizardVars>>

\* the heartbeat task of an instance whose lock object is acquired
Heartbeat(i) ==
    /\ inst[i].acquired
    /\ LET r == lock_heartbeat(lease, i)
       IN  /\ r.ok
           /\ lease' = r.lease
           /\ inst' = [inst EXCEPT ![i].lease_left = r.lease.remaining]
    /\ UNCHANGED <<paymentVars, idemVars, dedupeVars, pricingVars, wizardVars>>

\* the database clock moves on
LeaseTick ==
    /\ lease.remaining > 0 \/ \E i \in Instances : inst[i].lease_left > 0
    /\ lease' = [lease EXCEPT !.remaining = TickDown(@)]
    /\ inst' = [i \in Instances |-> [inst[i] EXCEPT !.lease_left = TickDown(@)]]
    /\ UNCHANGED <<paymentVars, idemVars, dedupeVars, pricingVars, wizardVars>>

NextLease ==
    \/ \E i \in Instances, e \in EnvInputs : Start(i, e)
    \/ \E i \in Instances : AcquireAttempt(i)
    \/ \E i \in Instances : StandbyWait(i)
    \/ \E i \in Instances : StandbyAcquire(i)
    \/ \E i \in Instances : StandbyExit(i)
    \/ \E i \in Instances, ok \in BOOLEAN : InitServices(i, ok)
    \/ \E i \in Instances, bot_mode \in BotModes : BotModeGuard(i, bot_mode)
    \/ \E i \in Instances, outcome \in ValidationOutcomes : ValidateStartup(i, outcome)
    \/ \E i \in Instances : StopPolling(i)
    \/ \E i \in Instances : Cleanup(i)
    \/ \E i \in Instances : Signal(i)
    \/ \E i \in Instances : EmergencyStopHeartbeat(i)
    \/ \E i \in Instances : EmergencyRelease(i)
    \/ \E i \in Instances : Heartbeat(i)
    \/ LeaseTick

\* the instances of one deployment contending for the lease
SpecLease == Init /\ [][NextLease]_vars

\* the environments with DATABASE_URL set and DRY_RUN off
LockEnvInputs == {e \in EnvInputs : UsesLock(e)}

NextLeasePaid ==
    \/ \E i \in Instances, e \in LockEnvInputs : Start(i, e)
    \/ \E i \in Instances : AcquireAttempt(i)
    \/ \E i \in Instances : StandbyWait(i)
    \/ \E i \in Instances : StandbyAcquire(i)
    \/ \E i \in Instances : StandbyExit(i)
    \/ \E i \in Instances, ok \in BOOLEAN : InitServices(i, ok)
    \/ \E i \in Instances, bot_mode \in BotModes : BotModeGuard(i, bot_mode)
    \/ \E i \in Instances, outcome \in ValidationOutcomes : ValidateStartup(i, outcome)
    \/ \E i \in Instances : HandlePaidUpdate(i)
    \/ \E i \in Instances : SettleCharge(i)
    \/ \E i \in Instances : StopPolling(i)
    \/ \E i \in Instances : Cleanup(i)
    \/ \E i \in Instances : Signal(i)
    \/ \E i \in Instances : EmergencyStopHeartbeat(i)
    \/ \E i \in Instances : EmergencyRelease(i)
    \/ \E i \in Instances : Heartbeat(i)
    \/ LeaseTick

\* the instances of a deployment with a database, contending for the lease
\* and handling paid updates while they poll
SpecLeasePaid == Init /\ [][NextLeasePaid]_vars

(***************************************************************************)
(* Effective price: effective_rub_price of app/pricing/calc.py and         *)
(* _effective_rub of app/pricing/free_models.py.  app.pricing.fx is not     *)
(* part of the analysed sources; its conversions are modelled from the     *)
(* specification (section 4.1).                                             *)
(***************************************************************************)
\* pricing.get(key, default)
Get(pricing, key, default) ==
    IF pricing[key] = Absent THEN default ELSE pricing[key]

\* _f: None becomes 0.0, a number stays
_f(v) == IF v = Absent THEN 0 ELSE v

\* fx.usd_to_rub: foreign rate x FX rate x markup
usd_to_rub(usd, fx, markup) == usd * fx * markup

\* fx.credits_to_rub: credits x credit rate x FX rate x markup
credits_to_rub(credits, credits_to_usd, fx, markup) ==
    credits * credits_to_usd * fx * markup

\* effective_rub_price(pricing) -> (rub_price, basis)
effective_rub_price(pricing, fx, markup, credits_to_usd) ==
    LET rub == _f(Get(pricing, "rub_per_gen", Get(pricing, "rub_per_use", 0)))
        usd == _f(Get(pricing, "usd_per_gen", Get(pricing, "usd_per_use", 0)))
        credits == _f(Get(pricing, "credits_per_gen",
                          Get(pricing, "credits_per_use", 0)))
    IN  IF rub > 0 THEN [rub |-> rub, basis |-> "rub"]
        ELSE IF usd > 0 THEN [rub |-> usd_to_rub(usd, fx, markup), basis |-> "usd"]
        ELSE IF credits > 0
        THEN [rub |-> credits_to_rub(credits, credits_to_usd, fx, markup),
              basis |-> "credits"]
        ELSE [rub |-> 0, basis |-> "none"]

\* `isinstance(v, (int, float)) and v > 0` for v = pricing.get(k)
Positive(pricing, k) == pricing[k] # Absent /\ pricing[k] > 0

\* the first key of the pair, in the order of the loop, with a positive value
FirstPositive(pricing, k1, k2) ==
    IF Positive(pricing, k1) THEN pricing[k1]
    ELSE IF Positive(pricing, k2) THEN pricing[k2]
    ELSE Absent

\* _effective_rub(pricing, fx, markup, credits_to_usd) -> float | None
_effective_rub(pricing, fx, markup, credits_to_usd) ==
    LET rub == FirstPositive(pricing, "rub_per_gen", "rub_per_use")
        usd == FirstPositive(pricing, "usd_per_gen", "usd_per_use")
        credits == FirstPositive(pricing, "credits_per_gen", "credits_per_use")
    IN  IF rub # Absent THEN rub
        ELSE IF usd # Absent THEN usd * fx * markup
        ELSE IF credits # Absent THEN credits * credits_to_usd * fx * markup
        ELSE Absent

\* the result of both functions for a pricing record with the same FX rate,
\* markup and credit rate
Quote(pricing, fx, markup, credits_to_usd) ==
    [pricing |-> pricing, fx |-> fx, markup |-> markup,
     credits_to_usd |-> credits_to_usd,
     price |-> effective_rub_price(pricing, fx, markup, credits_to_usd),
     free_rub |-> _effective_rub(pricing, fx, markup, credits_to_usd)]

\* a pricing record is priced by both functions; a run prices one record
Price ==
    /\ quote = NoQuote
    /\ \E pricing \in Pricings, fx \in Factors, markup \in Factors,
          credits_to_usd \in Factors :
            quote' = Quote(pricing, fx, markup, credits_to_usd)
    /\ UNCHANGED tier
    /\ UNCHANGED <<paymentVars, idemVars, dedupeVars, leaseVars, wizardVars>>

NextPricing == Price

\* the effective price of any pricing record
SpecPricing == Init /\ [][NextPricing]_vars

(***************************************************************************)
(* FREE tier: get_free_models of app/pricing/free_models.py.               *)
(***************************************************************************)
\* the list in catalog order with the priced item put behind every item of
\* the sorted list that is not more expensive
InsertByPrice(sorted, item) ==
    LET k == Cardinality({j \in 1..Len(sorted) : sorted[j].rub <= item.rub})
    IN  SubSeq(sorted, 1, k) \o <<item>> \o SubSeq(sorted, k + 1, Len(sorted))

\* the sort left out: the priced items stay in catalog order
SortByPrice_CatalogOrder(priced) == priced

RECURSIVE SortByPrice(_)
\* priced.sort(key=lambda x: x[1]): ascending by price, stable
SortByPrice(priced) ==
    IF priced = << >> THEN << >>
    ELSE InsertByPrice(SortByPrice(SubSeq(priced, 1, Len(priced) - 1)),
                       priced[Len(priced)])

\* the effective price of a catalog item in the FREE tier computation
ItemRub(item, fx) == _effective_rub(item.model.pricing, fx, DefaultMarkup, 1)

RECURSIVE Priced(_, _)
\* the loop over enabled_items: (model_id, rub) of every enabled item with a
\* price, in catalog order
Priced(catalog, fx) ==
    IF catalog = << >> THEN << >>
    ELSE LET item == Head(catalog)
             rest == Priced(Tail(catalog), fx)
         IN  IF item.model.enabled /\ ItemRub(item, fx) # Absent
             THEN <<[model_id |-> item.model_id, rub |-> ItemRub(item, fx)]>> \o rest
             ELSE rest

\* priced[: max(0, int(limit))]
FirstN(s, limit) ==
    SubSeq(s, 1, IF limit < 0 THEN 0 ELSE IF limit > Len(s) THEN Len(s) ELSE limit)

\* get_free_models(limit): [] when the catalog cannot be read, else the ids of
\* the first `limit` priced items after the sort; nothing is raised
get_free_models(readable, catalog, fx, limit) ==
    IF ~readable THEN << >>
    ELSE LET top == FirstN(SortByPrice(Priced(catalog, fx)), limit)
         IN  [k \in 1..Len(top) |-> top[k].model_id]

\* the call get_free_models(limit) and what it returned; nothing is raised
FreeTier(readable, catalog, fx, limit) ==
    [called |-> TRUE, readable |-> readable, catalog |-> catalog,
     fx |-> fx, limit |-> limit, raised |-> FALSE,
     free_ids |-> get_free_models(readable, catalog, fx, limit)]

\* the FREE tier is computed from a catalog file that can be read; a run
\* computes one tier
ComputeFreeTier ==
    /\ tier = NoTier
    /\ \E catalog \in Catalogs, fx \in Factors, limit \in 0..MaxLimit :
            tier' = FreeTier(TRUE, catalog, fx, limit)
    /\ UNCHANGED quote
    /\ UNCHANGED <<paymentVars, idemVars, dedupeVars, leaseVars, wizardVars>>

\* the FREE tier is computed while the catalog file is missing or is not JSON
ComputeFreeTierUnreadable ==
    /\ tier = NoTier
    /\ \E fx \in Factors, limit \in 0..MaxLimit :
            tier' = FreeTier(FALSE, << >>, fx, limit)
    /\ UNCHANGED quote
    /\ UNCHANGED <<paymentVars, idemVars, dedupeVars, leaseVars, wizardVars>>

NextFreeTier ==
    \/ ComputeFreeTier
    \/ ComputeFreeTierUnreadable

\* the FREE tier of any catalog
SpecFreeTier == Init /\ [][NextFreeTier]_vars

(***************************************************************************)
(* The input wizard: bot/flows/wizard.py.  A field of the spec is named by *)
(* its position 1..Len(fields); the index of the code counts from 0, so    *)
(* the current field is fields[index + 1].                                 *)
(***************************************************************************)
\* the index of a handler's data is past the last field
PastLast(data, spec_fields) ==
    data.wizard_current_field_index >= Len(spec_fields)

\* the current field of a handler's data
CurrentField(data, spec_fields) ==
    spec_fields[data.wizard_current_field_index + 1]

\* update_data(wizard_inputs=inputs ∪ {current field},
\*             wizard_current_field_index=current_index + 1)
SaveAndAdvance(data, index, inputs) ==
    [data EXCEPT !.wizard_inputs = inputs,
                 !.wizard_current_field_index = index + 1]

\* `if next_index >= len(spec.fields): await wizard_show_confirmation(...)`,
\* which sets the state confirming; else the next field is shown
AfterAdvance(next_index, spec_fields, state) ==
    IF next_index >= Len(spec_fields) THEN "confirming" ELSE state

\* wizard_skip_field without `if current_field.required: ... return`
wizard_skip_field_NoRequiredCheck(data, spec_fields, state) ==
    IF PastLast(data, spec_fields)
    THEN [data |-> data, state |-> "confirming"]
    ELSE [data |-> [data EXCEPT !.wizard_current_field_index = @ + 1],
          state |-> AfterAdvance(data.wizard_current_field_index + 1,
                                 spec_fields, state)]

\* wizard_skip_field after its callback.answer(): past the last field the
\* confirmation is shown; a required field is refused; else the index moves on
wizard_skip_field(data, spec_fields, state) ==
    IF PastLast(data, spec_fields)
    THEN [data |-> data, state |-> "confirming"]
    ELSE IF CurrentField(data, spec_fields).required
    THEN [data |-> data, state |-> state]
    ELSE [data |-> [data EXCEPT !.wizard_current_field_index = @ + 1],
          state |-> AfterAdvance(data.wizard_current_field_index + 1,
                                 spec_fields, state)]

\* wizard_use_default after its callback.answer(): past the last field and
\* for a field whose default is None nothing is done; else the default is
\* saved and the index moves on
wizard_use_default(data, spec_fields, state) ==
    IF PastLast(data, spec_fields)
    THEN [data |-> data, state |-> state]
    ELSE IF ~CurrentField(data, spec_fields).has_default
    THEN [data |-> data, state |-> state]
    ELSE [data |-> SaveAndAdvance(data, data.wizard_current_field_index,
                      data.wizard_inputs
                          \cup {data.wizard_current_field_index + 1}),
          state |-> AfterAdvance(data.wizard_current_field_index + 1,
                                 spec_fields, state)]

\* wizard_go_back after its callback.answer(): at the first field
\* state.clear(), else the index moves back
wizard_go_back(data, state) ==
    IF data.wizard_current_field_index <= 0
    THEN [data |-> NoData, state |-> "none"]
    ELSE [data |-> [data EXCEPT !.wizard_current_field_index = @ - 1],
          state |-> state]

\* wizard_process_input for a text field: an empty or invalid input is
\* refused, a valid one is saved and the index moves on
wizard_process_text(data, spec_fields, state, valid) ==
    IF ~valid
    THEN [data |-> data, state |-> state]
    ELSE [data |-> SaveAndAdvance(data, data.wizard_current_field_index,
                      data.wizard_inputs
                          \cup {data.wizard_current_field_index + 1}),
          state |-> AfterAdvance(data.wizard_current_field_index + 1,
                                 spec_fields, state)]

\* one handler more, one handler less among the suspended ones
Suspend(h) == handlers (+) SetToBag({h})
Resume(h) == handlers (-) SetToBag({h})

\* start_wizard for a model with input fields: the data is written with
\* index 0 and no inputs, the first field is shown, the state is set
WizardStart(spec_fields) ==
    /\ fields = <<>>
    /\ fsm_state = "none"
    /\ fields' = spec_fields
    /\ fsm_data' = [wizard_spec |-> TRUE, model_config |-> TRUE,
                    wizard_current_field_index |-> 0, wizard_inputs |-> {}]
    /\ fsm_state' = "collecting_input"
    /\ UNCHANGED <<handlers, gen_calls>>
    /\ UNCHANGED <<paymentVars, idemVars, dedupeVars, leaseVars, pricingVars>>

\* a callback arrives in the state its handler is registered for: the
\* handler starts and is suspended at `await callback.answer()`
Dispatch(kind) ==
    /\ fsm_state = CallbackFilter[kind]
    /\ BagCardinality(handlers) < NumHandlers
    /\ handlers' = Suspend(Answering(kind))
    /\ UNCHANGED <<fields, fsm_state, fsm_data, gen_calls>>
    /\ UNCHANGED <<paymentVars, idemVars, dedupeVars, leaseVars, pricingVars>>

\* the rest of wizard_skip_field; without wizard_spec in the data
\* `len(spec.fields)` raises and nothing is written
SkipBody ==
    /\ BagIn(Answering("skip"), handlers)
    /\ handlers' = Resume(Answering("skip"))
    /\ LET r == IF fsm_data.wizard_spec
                THEN wizard_skip_field(fsm_data, fields, fsm_state)
                ELSE [data |-> fsm_data, state |-> fsm_state]
       IN  fsm_data' = r.data /\ fsm_state' = r.state
    /\ UNCHANGED <<fields, gen_calls>>
    /\ UNCHANGED <<paymentVars, idemVars, dedupeVars, leaseVars, pricingVars>>

\* the rest of wizard_use_default
UseDefaultBody ==
    /\ BagIn(Answering("use_default"), handlers)
    /\ handlers' = Resume(Answering("use_default"))
    /\ LET r == IF fsm_data.wizard_spec
                THEN wizard_use_default(fsm_data, fields, fsm_state)
                ELSE [data |-> fsm_data, state |-> fsm_state]
       IN  fsm_data' = r.data /\ fsm_state' = r.state
    /\ UNCHANGED <<fields, gen_calls>>
    /\ UNCHANGED <<paymentVars, idemVars, dedupeVars, leaseVars, pricingVars>>

\* the rest of wizard_go_back
BackBody ==
    /\ BagIn(Answering("back"), handlers)
    /\ handlers' = Resume(Answering("back"))
    /\ LET r == wizard_go_back(fsm_data, fsm_state)
       IN  fsm_data' = r.data /\ fsm_state' = r.state
    /\ UNCHANGED <<fields, gen_calls>>
    /\ UNCHANGED <<paymentVars, idemVars, dedupeVars, leaseVars, pricingVars>>

\* the rest of wizard_edit_inputs: the index is set to 0 and the state to
\* collecting_input
EditBody ==
    /\ BagIn(Answering("edit"), handlers)
    /\ handlers' = Resume(Answering("edit"))
    /\ fsm_data' = [fsm_data EXCEPT !.wizard_current_field_index = 0]
    /\ fsm_state' = "collecting_input"
    /\ UNCHANGED <<fields, gen_calls>>
    /\ UNCHANGED <<paymentVars, idemVars, dedupeVars, leaseVars, pricingVars>>

\* a message arrives in state collecting_input: wizard_process_input.  For a
\* file field a right file is acknowledged by an awaited message.answer
\* before anything is written; a text is handled without an await between
\* the read and the write
ProcessInput(valid) ==
    /\ fsm_state = "collecting_input"
    /\ fsm_data.wizard_spec
    /\ ~PastLast(fsm_data, fields)
    /\ IF CurrentField(fsm_data, fields).file
       THEN /\ valid
            /\ BagCardinality(handlers) < NumHandlers
            /\ handlers' = Suspend(Acknowledging(
                               fsm_data.wizard_current_field_index,
                               fsm_data.wizard_inputs
                                   \cup {fsm_data.wizard_current_field_index + 1}))
            /\ UNCHANGED <<fsm_data, fsm_state>>
       ELSE /\ LET r == wizard_process_text(fsm_data, fields, fsm_state, valid)
               IN  fsm_data' = r.data /\ fsm_state' = r.state
            /\ UNCHANGED handlers
    /\ UNCHANGED <<fields, gen_calls>>
    /\ UNCHANGED <<paymentVars, idemVars, dedupeVars, leaseVars, pricingVars>>

\* wizard_process_input after the acknowledgement: update_data with the
\* inputs and the index the handler holds, then the confirmation or the
\* next field
FileAck ==
    /\ \E h \in BagToSet(handlers) :
          /\ h.kind = "file_ack"
          /\ handlers' = Resume(h)
          /\ fsm_data' = SaveAndAdvance(fsm_data, h.index, h.inputs)
          /\ fsm_state' = AfterAdvance(h.index + 1, fields, fsm_state)
    /\ UNCHANGED <<fields, gen_calls>>
    /\ UNCHANGED <<paymentVars, idemVars, dedupeVars, leaseVars, pricingVars>>

\* wizard_confirm_and_generate after its callback.answer(): the data is
\* read and the message is edited
ConfirmAnswer ==
    /\ BagIn(Answering("confirm"), handlers)
    /\ handlers' = Resume(Answering("confirm")) (+)
                       SetToBag({Launching(fsm_data.model_config)})
    /\ UNCHANGED <<fields, fsm_state, fsm_data, gen_calls>>
    /\ UNCHANGED <<paymentVars, idemVars, dedupeVars, leaseVars, pricingVars>>

\* wizard_confirm_and_generate after the edit: update_data, state.clear(),
\* then the call of generate_with_payment
ConfirmGenerate ==
    /\ gen_calls < MaxGenCalls
    /\ \E h \in BagToSet(handlers) :
          /\ h.kind = "launching"
          /\ handlers' = Resume(h)
    /\ fsm_data' = NoData
    /\ fsm_state' = "none"
    /\ gen_calls' = gen_calls + 1
    /\ UNCHANGED fields
    /\ UNCHANGED <<paymentVars, idemVars, dedupeVars, leaseVars, pricingVars>>

NextWizard ==
    \/ \E f \in InputSpecs : WizardStart(f)
    \/ \E k \in Callbacks : Dispatch(k)
    \/ SkipBody
    \/ UseDefaultBody
    \/ BackBody
    \/ EditBody
    \/ \E valid \in BOOLEAN : ProcessInput(valid)
    \/ FileAck
    \/ ConfirmAnswer
    \/ ConfirmGenerate

\* one wizard session of one chat
SpecWizard == Init /\ [][NextWizard]_vars

(***************************************************************************)
(* Properties of the payment-safe generation transaction.                  *)
(***************************************************************************)
Has(s, e) == \E i \in DOMAIN req[s].trace : req[s].trace[i] = e

Ended(s) == req[s].pc \in {"done", "raised"}

\* the call went through create_pending_charge
Reserved(s) == req[s].charge_status # "none"

RECURSIVE SumCommitted(_, _)
SumCommitted(ch, ids) ==
    IF ids = {} THEN 0
    ELSE LET t == CHOOSE x \in ids : TRUE
         IN  (IF ch[t].status = "committed" THEN ch[t].amount ELSE 0)
             + SumCommitted(ch, ids \ {t})

\* C1: on the paid charge flow the balance is debited for a transaction id
\* only if a generation of that id returned success, a call whose generation
\* did not return success has not changed the balance, and a lone failed call
\* leaves the balance at its initial value.
C1_DebitOnlyOnSuccess ==
    /\ \A t \in TxIds : hist[t].debits > 0 => hist[t].genok
    /\ \A s \in Slots : req[s].gen # "success" => req[s].delta = 0
    /\ \A s \in Slots :
          (calls = 1 /\ req[s].pc = "done" /\ req[s].gen = "failure")
              => balance = InitBalance

C1_Witness ==
    \E s \in Slots :
        /\ req[s].pc = "done" /\ req[s].gen = "failure"
        /\ req[s].result.payment_status = "released"
        /\ req[s].charge_status = "pending"
        /\ balance = InitBalance

\* C2: every call that created a pending charge and has ended (returned or
\* left by an exception) has had exactly one of commit and release applied
\* to its transaction id: the charge is terminal.
C2_ChargeConservation ==
    \A s \in Slots :
        (Ended(s) /\ req[s].inserted)
            => /\ charges[req[s].charge_task_id].status \in {"committed", "released"}
               /\ hist[req[s].charge_task_id].commits
                    + hist[req[s].charge_task_id].releases = 1

\* C3: an exception of generator.generate after the pending charge was
\* created is converted to a failed generation whose charge is released: the
\* call goes on to release_charge and returns, it does not end by the
\* exception.
C3_ExceptionReleases ==
    \A s \in Slots :
        (req[s].gen = "raise" /\ req[s].charge_status = "pending")
            => \/ req[s].pc = "release_charge"
               \/ /\ req[s].pc = "done"
                  /\ req[s].result.payment_status \in
                        {"released", "already_released", "already_committed"}

\* C4: for any number of commit_charge / release_charge calls on one
\* transaction id, in every interleaving, the balance is debited at most once
\* (exactly once iff the charge ended committed), exactly one call is told
\* "committed" or "released", and every call reports the terminal status the
\* first one set.
C4_NoDoubleCharge ==
    /\ \A t \in TxIds :
          /\ hist[t].debits <= 1
          /\ hist[t].debits = 1 <=> charges[t].status = "committed"
          /\ hist[t].firsts <= 1
          /\ charges[t].status \in {"committed", "released"} => hist[t].firsts = 1
    /\ balance = InitBalance - SumCommitted(charges, TxIds)
    /\ \A s \in Slots :
          (req[s].pc = "done" /\ (Has(s, "commit") \/ Has(s, "release")))
              => LET st == charges[req[s].charge_task_id].status
                     ps == req[s].result.payment_status
                 IN  \/ st = "committed" /\ ps \in {"committed", "already_committed"}
                     \/ st = "released" /\ ps \in {"released", "already_released"}

\* two calls on one id have both committed: one was told committed, the other
\* already_committed
C4_Witness ==
    \E s1, s2 \in Slots :
        /\ s1 # s2
        /\ req[s1].pc = "done" /\ req[s2].pc = "done"
        /\ req[s1].charge_task_id = req[s2].charge_task_id
        /\ req[s1].result.payment_status = "committed"
        /\ req[s2].result.payment_status = "already_committed"
        /\ Has(s2, "commit")
        /\ balance = InitBalance - charges[req[s1].charge_task_id].amount

C6_NoGenerateOnReplay ==
    \A s \in Slots :
        req[s].charge_status \in {"already_committed", "already_released"}
            => /\ ~Has(s, "generate")
               /\ hist[req[s].charge_task_id].gens <= 1

\* C7: whenever a call of the paid charge flow returns success=True, the
\* charge of its transaction id is committed and the balance was debited by
\* the amount, once.
C7_SuccessImpliesCharged ==
    \A s \in Slots :
        (req[s].pc = "done" /\ Reserved(s) /\ req[s].result.success)
            => /\ charges[req[s].charge_task_id].status = "committed"
               /\ hist[req[s].charge_task_id].debits = 1

\* C8: when create_pending_charge reports insufficient_balance the call has
\* returned success=False with error_code INSUFFICIENT_BALANCE, after the
\* reservation alone (no generate, no commit, no release), and has changed
\* neither the balance nor the ledger.
C8_InsufficientShortCircuit ==
    \A s \in Slots :
        req[s].charge_status = "insufficient_balance"
            => /\ req[s].pc = "done"
               /\ req[s].result.success = FALSE
               /\ req[s].result.error_code = "INSUFFICIENT_BALANCE"
               /\ req[s].result.payment_status = "insufficient_balance"
               /\ req[s].trace = <<"reserve">>
               /\ req[s].gen = "none"
               /\ req[s].delta = 0
               /\ ~req[s].inserted

C8_Witness ==
    \E s \in Slots :
        /\ req[s].pc = "done"
        /\ req[s].charge_status = "insufficient_balance"
        /\ charges[req[s].charge_task_id].status = "none"
        /\ req[s].result.error_code = "INSUFFICIENT_BALANCE"
        /\ balance = InitBalance

\* C9: on the paid path a generation is in flight only after
\* create_pending_charge has returned, and the events of a call that reserved
\* are, in order, reserve, generate, then commit or release.
C9_ReserveGenerateSettle ==
    \A s \in Slots :
        /\ req[s].pc \in {"generate", "replay_generate", "commit_charge", "release_charge"}
              => Reserved(s) /\ req[s].trace[1] = "reserve"
        /\ (req[s].model_id \notin FreeModels /\ ~req[s].referral_used)
              => \A i \in DOMAIN req[s].trace :
                    /\ req[s].trace[i] = "reserve" => i = 1
                    /\ req[s].trace[i] = "generate"
                          => i = 2 /\ req[s].trace[1] = "reserve"
                    /\ req[s].trace[i] \in {"commit", "release"}
                          => i = 3 /\ req[s].trace[2] = "generate"

C9_Witness ==
    \E s \in Slots :
        /\ req[s].pc = "done"
        /\ req[s].trace \in {<<"reserve", "generate", "commit">>,
                             <<"reserve", "generate", "release">>}
        /\ \E q \in Slots : q # s /\ req[q].pc = "generate"

\* C10: a transaction id has at most one charge row, inserted once; its
\* status changes at most once, pending -> committed or pending -> released,
\* never between the terminal states; a reserve, commit or release that finds
\* the row reports its status and changes nothing.
C10_StatusMonotone ==
    /\ \A t \in TxIds :
          /\ hist[t].inserts <= 1
          /\ hist[t].commits + hist[t].releases <= 1
          /\ charges[t].status = "none"
                <=> hist[t].inserts = 0
          /\ charges[t].status = "pending"
                <=> (hist[t].inserts = 1 /\ hist[t].commits + hist[t].releases = 0)
          /\ charges[t].status = "committed" <=> hist[t].commits = 1
          /\ charges[t].status = "released" <=> hist[t].releases = 1
    /\ \A s \in Slots :
          LET st == IF Reserved(s) THEN charges[req[s].charge_task_id].status ELSE "none"
              ps == req[s].result.payment_status
          IN  /\ req[s].charge_status = "already_committed" => st = "committed"
              /\ req[s].charge_status = "already_released" => st = "released"
              /\ req[s].charge_status = "already_pending" => st # "none"
              /\ (req[s].pc = "done" /\ Has(s, "commit") /\ st = "released")
                    => ps = "already_released"
              /\ (req[s].pc = "done" /\ Has(s, "release") /\ st = "committed")
                    => ps = "already_committed"

\* a commit arrived at a released charge and was told already_released
C10_Witness ==
    \E s \in Slots :
        /\ req[s].pc = "done" /\ Has(s, "commit")
        /\ req[s].result.payment_status = "already_released"
        /\ charges[req[s].charge_task_id].status = "released"
        /\ balance = InitBalance

\* C11: when every reservation is made with reserve_balance=True, the
\* available balance (stored balance minus the pending charges' amounts) is
\* never negative, also with several calls reserving concurrently, and a call
\* whose reservation was refused with insufficient_balance inserted no charge.
C11_AvailableNeverNegative ==
    /\ Available >= 0
    /\ \A s \in Slots :
          req[s].charge_status = "insufficient_balance" => ~req[s].inserted

\* a second call is refused while the first call's reservation is still
\* pending and nothing has been debited: the stored balance alone would
\* have covered it
C11_Witness ==
    \E s, q \in Slots :
       /\ s # q
       /\ req[s].charge_status = "insufficient_balance"
       /\ req[q].charge_status = "pending"
       /\ req[q].pc = "generate"
       /\ balance = InitBalance
       /\ Available >= 0
       /\ Available < InitBalance

\* a call for a FREE model is at its generation or has ended, has touched
\* neither the ledger nor the referral counter, and returns tagged free_tier
\* with charge_task_id None after its generation was invoked
FreeBypassState(s) ==
    /\ req[s].pc \in {"free_generate", "done", "raised"}
    /\ ~req[s].referral_used
    /\ ~Reserved(s)
    /\ ~req[s].inserted
    /\ req[s].delta = 0
    /\ req[s].charge_task_id = None
    /\ \A i \in DOMAIN req[s].trace : req[s].trace[i] = "generate"
    /\ req[s].pc = "done" =>
          /\ req[s].trace = <<"generate">>
          /\ req[s].gen \in {"success", "failure"}
          /\ req[s].result.payment_status = "free_tier"
          /\ req[s].result.charge_task_id = None
          /\ req[s].result.success = (req[s].gen = "success")

\* C12: FREE-tier bypass: a call for a FREE model invokes generation and
\* returns payment_status free_tier with charge_task_id None, and no step of
\* such a call changes the balance, the charges or the referral counter,
\* whatever the generation outcome.
C12_FreeBypassFrame ==
    /\ [](\A s \in Slots : is_free_model(req[s].model_id) => FreeBypassState(s))
    /\ [][\A s \in Slots :
             (is_free_model(req[s].model_id) /\ req'[s] # req[s])
                => UNCHANGED <<balance, charges, referral_free_uses>>]_vars

\* a FREE call has returned a failed generation tagged free_tier although the
\* user had a referral credit and the amount was within the referral cap
C12_Witness ==
    \E s \in Slots :
        /\ is_free_model(req[s].model_id)
        /\ req[s].pc = "done"
        /\ req[s].gen = "failure"
        /\ req[s].result.payment_status = "free_tier"
        /\ req[s].amount <= ReferralMaxRub
        /\ referral_free_uses > 0
        /\ balance = InitBalance

\* every call started so far has returned a result and still sits in its slot
AllReturned ==
    /\ \A s \in Slots : req[s].pc \in {"idle", "done"}
    /\ calls = Cardinality({s \in Slots : req[s].pc = "done"})

\* no call met an exception: none of the generator, and the restoring
\* increment of every failed referral-free generation went through
NoReferralException ==
    \A s \in Slots :
        req[s].result.payment_status = "referral_free_failed"
            => Has(s, "restore_referral")

\* the calls that returned a successful referral-free generation
ReferralSuccesses ==
    {s \in Slots : req[s].pc = "done"
                   /\ req[s].result.payment_status = "referral_free"}

\* C13: entitlement conservation: a referral-free generation that failed or
\* timed out leaves referral_free_uses at its value before the call, one that
\* succeeded leaves it decremented by exactly 1; summed over the calls of the
\* user, concurrent ones included, the final counter is the initial counter
\* minus the number of successful referral-free generations.
C13_EntitlementConservation ==
    (AllReturned /\ NoReferralException)
        => referral_free_uses = MaxFreeUses - Cardinality(ReferralSuccesses)

\* C14: referral_free_uses is never negative, for any interleaving of
\* concurrent referral-free requests of the user.
C14_CounterNeverNegative == referral_free_uses >= 0

\* two concurrent calls have both decremented the counter after both read the
\* last credit: the second decrement met the floor
C14_Witness ==
    \E s, q \in Slots :
        /\ s # q
        /\ Has(s, "take_referral") /\ ~Has(s, "restore_referral")
        /\ Has(q, "take_referral") /\ ~Has(q, "restore_referral")
        /\ req[s].referral_uses_left = req[q].referral_uses_left
        /\ referral_free_uses = 0

\* the calls in a slot that took a referral credit and have not given it back
CreditHolders ==
    {s \in Slots : Has(s, "take_referral") /\ ~Has(s, "restore_referral")}

\* C15: taking a referral credit is atomic: with k remaining free uses at most
\* k concurrent requests take the referral-free path, so the credits held by
\* calls plus the credits left never exceed the credits the user started with
\* (two concurrent requests with one remaining use cannot both hold one).
C15_AtomicTake ==
    Cardinality(CreditHolders) + referral_free_uses <= MaxFreeUses

\* the call is in the referral precheck: reading or decrementing the counter
InPrecheck(s) == req[s].pc \in {"get_metadata", "increment_metadata_counter"}

\* the call is on the paid charge flow: about to reserve, or past it
InChargeFlow(s) == req[s].pc = "create_pending_charge" \/ Has(s, "reserve")

\* C16: path selection is exclusive and ordered: the FREE check comes first;
\* the referral-free path is taken only by a call for a model that is not
\* FREE, with amount <= the referral cap, that read remaining free uses > 0;
\* every other call, one whose precheck raised included, is on the paid
\* charge flow.  No call is on two paths, and none both took a referral
\* credit and created a pending charge.
C16_PathSelection ==
    \A s \in Slots : req[s].pc # "idle" =>
        /\ is_free_model(req[s].model_id) =>
              /\ req[s].pc \in {"free_generate", "done", "raised"}
              /\ ~req[s].referral_used /\ ~InChargeFlow(s)
        /\ InPrecheck(s) =>
              /\ ~is_free_model(req[s].model_id)
              /\ req[s].amount <= ReferralMaxRub
              /\ ~req[s].referral_used /\ ~Has(s, "reserve")
        /\ req[s].referral_used =>
              /\ ~is_free_model(req[s].model_id)
              /\ req[s].amount <= ReferralMaxRub
              /\ req[s].referral_uses_left >= 0
              /\ req[s].pc \in {"referral_generate", "restore_referral",
                                "done", "raised"}
              /\ ~InChargeFlow(s) /\ ~req[s].inserted
        /\ (~is_free_model(req[s].model_id) /\ ~InPrecheck(s)
               /\ ~req[s].referral_used) => InChargeFlow(s)
        /\ InChargeFlow(s) => ~Has(s, "take_referral")

\* a lone call with amount within the cap and a credit left whose precheck
\* raised: it is on the charge flow and holds no credit
C16_Witness ==
    \E s \in Slots :
        /\ calls = 1
        /\ req[s].pc = "create_pending_charge"
        /\ req[s].amount <= ReferralMaxRub
        /\ referral_free_uses = MaxFreeUses
        /\ ~req[s].referral_used

(***************************************************************************)
(* Properties of the idempotency store.                                    *)
(***************************************************************************)
\* the step is the body of an idem_try_start call with arguments a
IsTryStartBody(a) == waiting'[a] < waiting[a]

\* the entry is present and not expired for a caller at `now` with ttl_s
Unexpired(e, now, ttl_s) == e # NoEntry /\ now - e.created_at <= ttl_s

\* every idem_try_start call so far was made with one and the same ttl_s
OneTtl == Cardinality(ttls) <= 1

\* C17: idem_try_start(key, ttl) returns started=True and creates a 'started'
\* entry only when no unexpired entry for key exists, and otherwise returns
\* (False, the existing entry) and leaves that entry as it was; among callers
\* of one key within the TTL window (all callers passing the same ttl),
\* concurrent ones included, exactly one receives started=True: a call that
\* starts is more than ttl after the previous start of the key, and a call
\* that does not start is handed the entry of that one start.
C17_TryStartOnce ==
    [][\A a \in TryStartArgs : IsTryStartBody(a) =>
          LET e == STORE[a.key]
          IN  /\ IF Unexpired(e, clock, a.ttl_s)
                 THEN /\ obs'.started = FALSE
                      /\ obs'.existing = e
                      /\ STORE'[a.key] = e
                 ELSE /\ obs'.started = TRUE
                      /\ STORE'[a.key] = IdemEntry(clock, "started", None)
              /\ OneTtl =>
                    IF obs'.started
                    THEN starts[a.key] = -1 \/ clock - starts[a.key] > a.ttl_s
                    ELSE /\ obs'.existing.created_at = starts[a.key]
                         /\ starts' = starts]_vars

\* two threads were inside idem_try_start for one key in one tick, both
\* with the same ttl_s: the first has started the operation, the second has
\* been handed the entry the first created and has returned started=False
C17_Witness ==
    /\ obs.op = "try_start"
    /\ ~obs.started
    /\ obs.existing.status = "started"
    /\ obs.existing.created_at = clock
    /\ starts[obs.key] = clock
    /\ STORE[obs.key] = obs.existing
    /\ Cardinality(ttls) = 1
    /\ InTryStart = 0

\* C18: an entry of the idempotency store expires after its TTL and is purged
\* lazily on the next access: no call of idem_try_start or idem_get made after
\* the TTL of an entry has elapsed is handed that entry (here: an entry older
\* than the longest ttl_s any caller passes).
C18_NoExpiredObserved ==
    obs.existing # NoEntry => clock - obs.existing.created_at <= TtlS

(***************************************************************************)
(* Properties of the update dedupe.                                        *)
(***************************************************************************)
\* C19: for any update_id, mark_update_processed returns True for the first
\* call only and False for every later call, so the middleware passes each
\* update_id to the next handler at most once, also when the update is
\* delivered several times or to several instances at once.
C19_AtMostOnce ==
    \A u \in UpdateIds : firsts[u] <= 1 /\ handled[u] <= 1

(***************************************************************************)
(* Properties of the singleton instance lock.                               *)
(***************************************************************************)
\* the instance counts itself the holder of a lease that has not expired
Holds(i) == inst[i].acquired /\ inst[i].lease_left > 0

\* no two instances hold a non-expired lease at once
LeaseMutex == \A i, j \in Instances : Holds(i) /\ Holds(j) => i = j

\* an acquire that returned success found the row unclaimed or expired
AcquiredOnlyFree == \A i \in Instances : inst[i].lock_acquired => inst[i].acquired_free

\* C20 as stated: lease mutual exclusion, acquire succeeds only on an
\* unclaimed or expired lease, and whatever its configuration an instance
\* runs the active role (database services, polling) only after its own
\* acquire returned success.
C20_ActiveOnlyAfterAcquire ==
    /\ LeaseMutex
    /\ AcquiredOnlyFree
    /\ \A i \in Instances :
         inst[i].db_services \/ inst[i].polling => inst[i].lock_acquired

\* C20 amended: at no time do two instances both hold a non-expired lease;
\* acquire succeeds only if the lease is unclaimed or expired; an instance
\* configured with DATABASE_URL and without DRY_RUN runs the active role
\* (database services, polling) only after its own acquire returned success.
\* An instance without DATABASE_URL or with DRY_RUN takes no lock, starts no
\* database services and polls without a lease.
C20_LeaseMutualExclusion ==
    /\ LeaseMutex
    /\ AcquiredOnlyFree
    /\ \A i \in Instances :
         /\ inst[i].db_services => UsesLock(inst[i]) /\ inst[i].lock_acquired
         /\ inst[i].polling /\ UsesLock(inst[i]) => inst[i].lock_acquired

\* one instance holds the lease and polls after its acquire succeeded while
\* another instance of the same configuration waits in standby
C20_Witness ==
    \E i, j \in Instances :
        /\ i # j
        /\ Holds(i) /\ lease.holder = i
        /\ inst[i].lock_acquired /\ inst[i].db_services /\ inst[i].polling
        /\ UsesLock(inst[j]) /\ inst[j].pc = "standby_wait"
        /\ ~inst[j].lock_acquired /\ ~inst[j].polling

\* the instance is in the standby block of main()
InStandby(i) == inst[i].pc \in {"standby_wait", "standby_acquire", "standby_exit"}

\* C21: an instance configured with DATABASE_URL and without DRY_RUN whose
\* lock_acquired is false is still in the acquisition loop or in standby: it
\* has not initialised the database services (which include the FREE tier
\* setup) and has not started polling.
C21_StandbyDoesNothing ==
    \A i \in Instances :
        UsesLock(inst[i]) /\ ~inst[i].lock_acquired =>
            /\ inst[i].pc = "acquire" \/ InStandby(i)
            /\ ~inst[i].db_services
            /\ ~inst[i].polling

\* an instance retries the acquisition from standby while another instance
\* holds the unexpired lease and runs the database services
C21_Witness ==
    \E i, j \in Instances :
        /\ i # j
        /\ UsesLock(inst[j]) /\ inst[j].pc = "standby_acquire"
        /\ ~inst[j].lock_acquired /\ ~inst[j].db_services /\ ~inst[j].polling
        /\ lease.holder = i /\ lease.remaining > 0 /\ inst[i].db_services

\* C22 (shutdown half): a standby instance to which shutdown has been
\* signalled leaves the standby loop without becoming active, that is, no
\* acquire of it succeeds after the signal.
C22_ShutdownLeavesStandby ==
    [][\A i \in Instances :
          InStandby(i) /\ inst[i].shutdown => ~inst'[i].lock_acquired]_vars

\* the emergency release of the instance has reached its release call, or
\* has completed it
ReleaseBegun(i) ==
    \/ inst[i].emergency = "releasing"
    \/ inst[i].lock_acquired /\ ~inst[i].acquired

\* the step extends the expiry of the lease held by the instance
ExtendsLease(i) ==
    /\ lease.holder = i /\ lease'.holder = i
    /\ lease'.remaining > lease.remaining

\* the step of the instance is a successful acquire
AcquireStep(i) ==
    /\ inst[i].pc \in {"acquire", "standby_acquire"}
    /\ ~inst[i].lock_acquired /\ inst'[i].lock_acquired

\* C23: after a shutdown signal received with the lock held, the heartbeat is
\* stopped before the release is awaited: no step extends the lease of the
\* instance once its release has begun, and a free lease gets a holder only
\* through a successful acquire of that holder.
C23_HeartbeatStoppedBeforeRelease ==
    [][/\ \A i \in Instances : ReleaseBegun(i) => ~ExtendsLease(i)
       /\ lease.holder = NoInstance /\ lease'.holder # NoInstance =>
              AcquireStep(lease'.holder)]_vars

\* the signal arrived with the lock held and the lease partly run down: the
\* heartbeat is stopped, the release is being awaited and the row still names
\* the instance, so a heartbeat now would extend the lease
C23_Witness ==
    \E i \in Instances :
        /\ inst[i].shutdown /\ inst[i].emergency = "releasing"
        /\ ~inst[i].acquired
        /\ lease.holder = i /\ lease.remaining > 0 /\ lease.remaining < LeaseTtl

\* the step is a release of the lease by the instance that holds it
ReleaseStep(i) == lease.holder = i /\ lease'.holder = NoInstance

\* C24: the lease is released only after the instance stopped handling
\* updates and its in-flight charge reached committed or released.
C24_ReleaseAfterSettle ==
    [][\A i \in Instances :
          ReleaseStep(i) => ~inst[i].polling /\ ~inst[i].pending_charge]_vars

\* the step is a failed validation of the instance: it leaves the validation
\* step of main() without starting polling
ValidationFails(i) ==
    /\ inst[i].pc = "validate_startup"
    /\ inst'[i].pc \notin {"validate_startup", "polling"}

\* C25: polling is started only by the step in which validate_startup
\* returned without error; a failed validation ends the instance with a
\* non-zero exit code, not ready, not polling, and with the lock released.
C25_ValidationFailureBlocks ==
    [][\A i \in Instances :
          /\ ~inst[i].polling /\ inst'[i].polling =>
                 inst[i].pc = "validate_startup" /\ inst'[i].ready
          /\ ValidationFails(i) =>
                 /\ inst'[i].pc = "exited" /\ inst'[i].exit_code # 0
                 /\ ~inst'[i].ready /\ ~inst'[i].polling
                 /\ lease'.holder # i]_vars

(***************************************************************************)
(* Properties of the pricing computations.                                  *)
(***************************************************************************)
\* the pricing record has a positive rate of the basis under one of its keys
HasRate(pricing, k1, k2) == Positive(pricing, k1) \/ Positive(pricing, k2)

\* the basis the fixed order local -> foreign -> credits -> none selects
FirstBasis(pricing) ==
    IF HasRate(pricing, "rub_per_gen", "rub_per_use") THEN "rub"
    ELSE IF HasRate(pricing, "usd_per_gen", "usd_per_use") THEN "usd"
    ELSE IF HasRate(pricing, "credits_per_gen", "credits_per_use") THEN "credits"
    ELSE "none"

\* a pricing record has been priced
Quoted == quote.price.basis # "unset"

\* C29: effective_rub_price returns the first basis, in the order rub, usd,
\* credits, that has a positive configured rate; 'none' with amount 0 only
\* when no basis has one; the amount is never negative.
C29_FirstPositiveBasisWins ==
    Quoted =>
        /\ quote.price.basis = FirstBasis(quote.pricing)
        /\ quote.price.basis = "none" => quote.price.rub = 0
        /\ quote.price.rub >= 0

\* C30: for every pricing record, effective_rub_price and _effective_rub
\* select the same basis and return the same amount, 'none'/0 corresponding
\* to None.
C30_SamePriceBothFunctions ==
    Quoted =>
        IF quote.price.basis = "none"
        THEN quote.free_rub = Absent
        ELSE quote.free_rub = quote.price.rub

\* the item of the computed tier's catalog with the model id
ItemOf(id) == CHOOSE k \in 1..Len(tier.catalog) : tier.catalog[k].model_id = id

\* the model id is a key of the catalog
InCatalog(id) == \E k \in 1..Len(tier.catalog) : tier.catalog[k].model_id = id

\* the effective price of the model of the catalog
PriceOf(id) == ItemRub(tier.catalog[ItemOf(id)], tier.fx)

\* the enabled models of the catalog with an effective price > 0
Monetizable ==
    {id \in ModelIds : /\ InCatalog(id)
                       /\ tier.catalog[ItemOf(id)].model.enabled
                       /\ PriceOf(id) # Absent /\ PriceOf(id) > 0}

\* the models of the computed tier
TierIds == {tier.free_ids[k] : k \in 1..Len(tier.free_ids)}

\* C26: get_free_models(N) on a readable catalog returns enabled models with
\* effective price > 0, each once; N of them when that many exist; no
\* monetizable model outside the result is strictly cheaper than one inside;
\* the result is ascending by price and models tied on price keep catalog
\* insertion order, inside the result and at its boundary.
C26_CheapestMonetizable ==
    tier.called /\ tier.readable =>
        /\ TierIds \subseteq Monetizable
        /\ Cardinality(TierIds) = Len(tier.free_ids)
        /\ Cardinality(Monetizable) >= tier.limit =>
               Len(tier.free_ids) = tier.limit
        /\ \A a \in TierIds, b \in Monetizable \ TierIds :
               /\ PriceOf(b) >= PriceOf(a)
               /\ PriceOf(b) = PriceOf(a) => ItemOf(a) < ItemOf(b)
        /\ \A k, l \in 1..Len(tier.free_ids) :
               k < l =>
                   /\ PriceOf(tier.free_ids[k]) <= PriceOf(tier.free_ids[l])
                   /\ PriceOf(tier.free_ids[k]) = PriceOf(tier.free_ids[l]) =>
                          ItemOf(tier.free_ids[k]) < ItemOf(tier.free_ids[l])

\* a catalog of three monetizable models listed in descending key order, two
\* of them tied on the lowest price, a limit of two: the tier is the two tied
\* models in catalog order and leaves the dearest out
C26_Witness ==
    /\ tier.called /\ tier.readable /\ tier.limit = 2
    /\ Cardinality(Monetizable) = 3
    /\ Len(tier.free_ids) = 2
    /\ PriceOf(tier.free_ids[1]) = PriceOf(tier.free_ids[2])
    /\ tier.free_ids[1] > tier.free_ids[2]
    /\ \E b \in Monetizable \ TierIds : PriceOf(b) > PriceOf(tier.free_ids[2])

\* the catalogs that list the items of the computed tier's catalog in another
\* order
Reorderings ==
    LET n == Len(tier.catalog)
    IN  {[k \in 1..n |-> tier.catalog[p[k]]] :
            p \in {q \in [1..n -> 1..n] : \A k, l \in 1..n : q[k] = q[l] => k = l}}

\* C27: the FREE tier is the same ordered list for every order in which the
\* catalog lists its models, models tied on effective price being ordered by
\* catalog key.
C27_OrderIndependent ==
    tier.called /\ tier.readable =>
        /\ \A c \in Reorderings :
               get_free_models(TRUE, c, tier.fx, tier.limit) = tier.free_ids
        /\ \A k, l \in 1..Len(tier.free_ids) :
               k < l /\ PriceOf(tier.free_ids[k]) = PriceOf(tier.free_ids[l]) =>
                   tier.free_ids[k] < tier.free_ids[l]

\* C28: the FREE tier computation never returns fewer than N models: it
\* returns N model ids or raises a configuration error.
C28_NeverShorter ==
    tier.called => tier.raised \/ Len(tier.free_ids) = tier.limit


(***************************************************************************)
(* C31: a delivery whose INSERT or SELECT raised a storage error is        *)
(* dropped by UpdateDedupeMiddleware and the next handler is never called  *)
(* for it; is_update_processed answers False under the same error,         *)
(* whatever the table holds; when every delivery of an update met the      *)
(* error, the update was handled zero times.                               *)
(***************************************************************************)
C31_StorageErrorDrops ==
    /\ \A d \in Deliveries :
          mw[d].storage_error => mw[d].pc = "dropped" /\ ~mw[d].is_first_time
    /\ \A u \in UpdateIds :
          ~is_update_processed(processed_updates, u, FALSE)
    /\ \A u \in UpdateIds :
          (\A d \in Deliveries :
              mw[d].update_id = u => mw[d].storage_error) => handled[u] = 0

\* an outage: every delivery carried an update and was discarded on a storage
\* error, one at the INSERT and one at the SELECT after its row was written
C31_Witness ==
    /\ \A d \in Deliveries :
          mw[d].update_id # NoUpdateId /\ mw[d].storage_error /\ mw[d].pc = "dropped"
    /\ processed_updates # {}
    /\ \A u \in UpdateIds : handled[u] = 0


(***************************************************************************)
(* C32: a call that took a referral credit never touches the charge        *)
(* ledger: it holds no charge id, has inserted no charge, has reserved,    *)
(* committed and released nothing, and no step of it changes the balance   *)
(* or the charges, whether its generation succeeds, fails or raises.       *)
(***************************************************************************)
C32_ReferralLeavesLedger ==
    /\ [](\A s \in Slots :
             req[s].referral_used =>
                /\ req[s].charge_task_id = None
                /\ ~req[s].inserted
                /\ req[s].delta = 0
                /\ \A i \in DOMAIN req[s].trace :
                      req[s].trace[i] \in
                          {"take_referral", "generate", "restore_referral"})
    /\ [][\A s \in Slots :
             ((req[s].referral_used \/ req'[s].referral_used)
                 /\ req'[s] # req[s])
                => UNCHANGED <<balance, charges>>]_vars

\* one call returned a successful referral-free generation and another a
\* failed one, and the balance and the ledger are as they were at the start
C32_Witness ==
    \E s, q \in Slots :
        /\ req[s].pc = "done" /\ req[s].referral_used
        /\ req[s].result.payment_status = "referral_free"
        /\ req[q].pc = "done" /\ req[q].referral_used
        /\ req[q].result.payment_status = "referral_free_failed"
        /\ balance = InitBalance
        /\ \A tx \in TxIds : charges[tx] = NoCharge


C34_StartedExcludes ==
    [][\A a \in TryStartArgs :
          (IsTryStartBody(a) /\ STORE[a.key].status = "started")
              => ~obs'.started]_vars


(***************************************************************************)
(* C35: once main() has acquired the lock, every way it can end releases   *)
(* the lock: when the process of an instance that had acquired the lock    *)
(* ends, the lease is not left held by that instance.                      *)
(***************************************************************************)
C35_EveryExitReleases ==
    [][\A i \in Instances :
          (inst[i].lock_acquired /\ inst[i].pc # "exited"
              /\ inst'[i].pc = "exited")
             => lease'.holder # i]_vars


(***************************************************************************)
(* C36: an instance that has received SIGTERM/SIGINT ends with the lease   *)
(* not held by it, in whatever phase the signal met it (the acquisition    *)
(* attempts, standby, polling); a lock acquired after the signal is        *)
(* released before the process ends.                                       *)
(***************************************************************************)
C36_SignalledExitReleases ==
    [][\A i \in Instances :
          (inst[i].shutdown /\ inst[i].pc # "exited" /\ inst'[i].pc = "exited")
             => lease'.holder # i]_vars


\* what /readyz answers for a running instance and how its health state was
\* reached: 200 exactly for mode active with ready set; that state is set
\* only after startup validation passed and, if the instance takes a lock
\* (needs_lock), after its acquire succeeded; starting and standby answer 503
ReadyzAnswers(i, needs_lock) ==
    LET state == get_health_state(i)
    IN  /\ readyz(state) = 200 <=> (state.mode = "active" /\ state.ready)
        /\ readyz(state) # 200 => readyz(state) = 503
        /\ (state.mode = "active" \/ state.ready) =>
              /\ inst[i].pc \in {"polling", "cleanup"}
              /\ needs_lock => inst[i].lock_acquired
        /\ (state.mode \in {"starting", "standby"} \/ InStandby(i)) =>
              readyz(state) = 503

RequiredFilled(inputs) ==
    \A p \in 1..Len(fields) : fields[p].required => p \in inputs

\* the step is the body of the handler of the callback, run on data that
\* holds the spec with the index at a field
BodyAtField(kind) ==
    /\ BagIn(Answering(kind), handlers)
    /\ handlers' = Resume(Answering(kind))
    /\ fsm_data.wizard_spec
    /\ ~PastLast(fsm_data, fields)

\* C38: in state collecting_input the current field index stays within
\* 0..len(fields) whatever input, skip, use_default, back and edit events are
\* handled; skip on a required field and use_default on a field without
\* default leave the index and the inputs unchanged; the wizard enters state
\* confirming only with the index at len(fields), and at that moment every
\* required field has a value in wizard_inputs.
C38_WizardInvariant ==
    /\ [](fsm_state = "collecting_input" =>
             fsm_data.wizard_current_field_index \in 0..Len(fields))
    /\ [][(BodyAtField("skip") /\ CurrentField(fsm_data, fields).required)
             => UNCHANGED <<fsm_data, fsm_state>>]_vars
    /\ [][(BodyAtField("use_default")
              /\ ~CurrentField(fsm_data, fields).has_default)
             => UNCHANGED <<fsm_data, fsm_state>>]_vars
    /\ [][(fsm_state # "confirming" /\ fsm_state' = "confirming") =>
             /\ fsm_data'.wizard_current_field_index = Len(fields)
             /\ RequiredFilled(fsm_data'.wizard_inputs)]_vars

\* the wizard of a spec with a required field followed by an optional one is
\* at the confirmation with the first field given and the second skipped,
\* while a skip tapped before is still to be handled
C38_Witness ==
    /\ fsm_state = "confirming"
    /\ Len(fields) = 2
    /\ fields[1].required /\ ~fields[2].required
    /\ fsm_data.wizard_inputs = {1}
    /\ fsm_data.wizard_current_field_index = 2
    /\ BagIn(Answering("skip"), handlers)


====
